---- MODULE Spec2Model ----
(***************************************************************************)
(* Verification model of the happiness / media-consumption tracker:        *)
(* the schema validator and entry factories (schemas/index.js), the        *)
(* collection handlers of the Home page (app/page.js) and the submit       *)
(* paths of the two forms (components/HappinessForm.js, MediaForm.js).     *)
(***************************************************************************)
EXTENDS Integers, Sequences, FiniteSets, TLC

(***************************************************************************)
(* JavaScript values.  A value is a tagged record; a number n/2 is stored  *)
(* as its double so that 1.5 and 30.5 are representable.                   *)
(***************************************************************************)
Str(s) == [t |-> "string", s |-> s, n |-> 0]
Half(k) == [t |-> "number", s |-> "", n |-> k]
Num(k) == Half(2 * k)
NaN == [t |-> "nan", s |-> "", n |-> 0]
Undefined == [t |-> "undefined", s |-> "", n |-> 0]
Null == [t |-> "null", s |-> "", n |-> 0]
\* a Symbol value: typeof is neither 'string' nor 'number'
Symbol == [t |-> "symbol", s |-> "", n |-> 0]

\* The implicit conversions ToString and ToNumber raise a TypeError on a
\* Symbol; on every other value modelled here they return.
ToStringThrows(v) == v.t = "symbol"
ToNumberThrows(v) == v.t = "symbol"

Digits == {"0", "1", "2", "3", "4", "5", "6", "7", "8", "9"}
HexDigits == Digits \cup {"a", "b", "c", "d", "e", "f"}

CharAt(s, i) == SubSeq(s, i, i)

DigitVal(c) ==
  CASE c = "0" -> 0 [] c = "1" -> 1 [] c = "2" -> 2 [] c = "3" -> 3
    [] c = "4" -> 4 [] c = "5" -> 5 [] c = "6" -> 6 [] c = "7" -> 7
    [] c = "8" -> 8 [] c = "9" -> 9

RECURSIVE DecimalVal(_)
DecimalVal(s) ==
  IF Len(s) = 0 THEN 0
  ELSE 10 * DecimalVal(SubSeq(s, 1, Len(s) - 1)) + DigitVal(CharAt(s, Len(s)))

AllDigits(s) == \A i \in 1..Len(s) : CharAt(s, i) \in Digits

\* String(value), as used by template literals and by RegExp.prototype.test
JSToString(v) ==
  CASE v.t = "string" -> v.s
    [] v.t = "undefined" -> "undefined"
    [] v.t = "null" -> "null"
    [] v.t = "nan" -> "NaN"
    [] v.t = "number" ->
         IF v.n % 2 = 0 THEN ToString(v.n \div 2)
         ELSE IF v.n > 0 THEN ToString((v.n - 1) \div 2) \o ".5"
         ELSE IF v.n = -1 THEN "-0.5"
         ELSE ToString((v.n + 1) \div 2) \o ".5"

\* Number(value), as applied by the relational operators < and >.
\* The result is a number value or NaN.
JSToNumber(v) ==
  CASE v.t = "number" -> v
    [] v.t = "null" -> Num(0)
    [] v.t = "string" ->
         IF AllDigits(v.s) THEN Num(DecimalVal(v.s))
         ELSE IF Len(v.s) > 1 /\ CharAt(v.s, 1) = "-"
                   /\ AllDigits(SubSeq(v.s, 2, Len(v.s)))
         THEN Num(0 - DecimalVal(SubSeq(v.s, 2, Len(v.s))))
         ELSE NaN
    [] OTHER -> NaN

\* value < bound and value > bound for an integer bound (false on NaN)
JSLess(v, bound) ==
  LET x == JSToNumber(v) IN x.t = "number" /\ x.n < 2 * bound

JSGreater(v, bound) ==
  LET x == JSToNumber(v) IN x.t = "number" /\ x.n > 2 * bound

NumberIsInteger(v) == v.t = "number" /\ v.n % 2 = 0

\* value || fallback : the falsy values are undefined, null, NaN, "" and 0
Truthy(v) ==
  CASE v.t = "string" -> v.s # ""
    [] v.t = "number" -> v.n # 0
    [] v.t = "symbol" -> TRUE
    [] OTHER -> FALSE

(***************************************************************************)
(* Regular expressions.  A pattern is the list of its character classes;   *)
(* both schema patterns are anchored and made of fixed-width classes.      *)
(***************************************************************************)
CharClass(name) ==
  CASE name = "digit" -> Digits
    [] name = "hex" -> HexDigits
    [] name = "dash" -> {"-"}

RECURSIVE Repeat(_, _)
Repeat(name, count) ==
  IF count = 0 THEN <<>> ELSE <<name>> \o Repeat(name, count - 1)

RegExpTest(pattern, value) ==
  LET s == JSToString(value) IN
    /\ Len(s) = Len(pattern)
    /\ \A i \in 1..Len(pattern) : CharAt(s, i) \in CharClass(pattern[i])

\* ^\d{4}-\d{2}-\d{2}$
DatePattern ==
  Repeat("digit", 4) \o <<"dash">> \o Repeat("digit", 2) \o <<"dash">>
    \o Repeat("digit", 2)

\* ^[0-9a-f]{8}-[0-9a-f]{4}-[0-9a-f]{4}-[0-9a-f]{4}-[0-9a-f]{12}$
UUIDPattern ==
  Repeat("hex", 8) \o <<"dash">> \o Repeat("hex", 4) \o <<"dash">>
    \o Repeat("hex", 4) \o <<"dash">> \o Repeat("hex", 4) \o <<"dash">>
    \o Repeat("hex", 12)

(***************************************************************************)
(* Schemas.  An optional keyword of a property is a sequence of length 0   *)
(* (absent) or 1 (present).                                                *)
(***************************************************************************)
happinessSchema ==
  [ required |-> <<"date", "happiness">>,
    properties |->
      [ date |-> [type |-> "string", enum |-> <<>>,
                  pattern |-> <<DatePattern>>,
                  minimum |-> <<>>, maximum |-> <<>>],
        happiness |-> [type |-> "integer", enum |-> <<>>, pattern |-> <<>>,
                       minimum |-> <<-2>>, maximum |-> <<2>>] ],
    additionalProperties |-> FALSE ]

MediaTypeNames == <<"book", "video", "podcast", "music">>

mediaSchema ==
  [ required |-> <<"id", "date", "type", "duration">>,
    properties |->
      [ id |-> [type |-> "string", enum |-> <<>>,
                pattern |-> <<UUIDPattern>>,
                minimum |-> <<>>, maximum |-> <<>>],
        date |-> [type |-> "string", enum |-> <<>>,
                  pattern |-> <<DatePattern>>,
                  minimum |-> <<>>, maximum |-> <<>>],
        type |-> [type |-> "string", enum |-> <<MediaTypeNames>>,
                  pattern |-> <<>>, minimum |-> <<>>, maximum |-> <<>>],
        duration |-> [type |-> "integer", enum |-> <<>>, pattern |-> <<>>,
                      minimum |-> <<1>>, maximum |-> <<>>] ],
    additionalProperties |-> TRUE ]

(***************************************************************************)
(* Objects are ordered lists of key/value pairs (Object.entries order).    *)
(***************************************************************************)
Field(k, v) == [k |-> k, v |-> v]
HasKey(data, key) == \E i \in 1..Len(data) : data[i].k = key
Get(data, key) ==
  IF HasKey(data, key)
  THEN data[CHOOSE i \in 1..Len(data) : data[i].k = key].v
  ELSE Undefined

RECURSIVE Join(_, _)
Join(list, sep) ==
  IF Len(list) = 0 THEN ""
  ELSE IF Len(list) = 1 THEN list[1]
  ELSE list[1] \o sep \o Join(Tail(list), sep)

RECURSIVE Flatten(_)
Flatten(lists) ==
  IF Len(lists) = 0 THEN <<>> ELSE Head(lists) \o Flatten(Tail(lists))

(***************************************************************************)
(* validateData(data, schema): the error list, in the order the code       *)
(* pushes the messages.                                                    *)
(***************************************************************************)
RequiredErrors(data, schema) ==
  LET msg(i) ==
        IF ~HasKey(data, schema.required[i])
        THEN <<"Missing required field: " \o schema.required[i]>>
        ELSE <<>>
  IN Flatten([i \in 1..Len(schema.required) |-> msg(i)])

\* Variant: the integer check done with typeof value === 'number'
TypeErrors_TypeofNumber(key, value, prop) ==
  IF prop.type = "string" /\ value.t # "string"
  THEN <<"Field " \o key \o " must be a string">>
  ELSE IF prop.type = "integer" /\ value.t \notin {"number", "nan"}
  THEN <<"Field " \o key \o " must be an integer">>
  ELSE <<>>

TypeErrors(key, value, prop) ==
  IF prop.type = "string" /\ value.t # "string"
  THEN <<"Field " \o key \o " must be a string">>
  ELSE IF prop.type = "integer" /\ ~NumberIsInteger(value)
  THEN <<"Field " \o key \o " must be an integer">>
  ELSE <<>>

EnumIncludes(list, value) ==
  \E i \in 1..Len(list) : value.t = "string" /\ value.s = list[i]

\* Variant: no enum check is made
EnumErrors_Unchecked(key, value, prop) == <<>>

EnumErrors(key, value, prop) ==
  IF prop.type = "string" /\ Len(prop.enum) = 1
       /\ ~EnumIncludes(prop.enum[1], value)
  THEN <<"Field " \o key \o " must be one of: " \o Join(prop.enum[1], ", ")>>
  ELSE <<>>

\* Variant: the pattern is tested on string values only
PatternErrors_StringsOnly(key, value, prop) ==
  IF prop.type = "string" /\ Len(prop.pattern) = 1 /\ value.t = "string"
       /\ ~RegExpTest(prop.pattern[1], value)
  THEN <<"Field " \o key \o " does not match required pattern">>
  ELSE <<>>

PatternErrors(key, value, prop) ==
  IF prop.type = "string" /\ Len(prop.pattern) = 1
       /\ ~RegExpTest(prop.pattern[1], value)
  THEN <<"Field " \o key \o " does not match required pattern">>
  ELSE <<>>

\* Variant: the lower bound is tested against zero (value < 0)
MinimumErrors_BelowZero(key, value, prop) ==
  IF prop.type = "integer" /\ Len(prop.minimum) = 1 /\ JSLess(value, 0)
  THEN <<"Field " \o key \o " must be >= " \o ToString(prop.minimum[1])>>
  ELSE <<>>

MinimumErrors(key, value, prop) ==
  IF prop.type = "integer" /\ Len(prop.minimum) = 1
       /\ JSLess(value, prop.minimum[1])
  THEN <<"Field " \o key \o " must be >= " \o ToString(prop.minimum[1])>>
  ELSE <<>>

\* Variant: the upper bound taken as exclusive (>= for >)
MaximumErrors_Exclusive(key, value, prop) ==
  IF prop.type = "integer" /\ Len(prop.maximum) = 1
       /\ JSGreater(value, prop.maximum[1] - 1)
  THEN <<"Field " \o key \o " must be <= " \o ToString(prop.maximum[1])>>
  ELSE <<>>

MaximumErrors(key, value, prop) ==
  IF prop.type = "integer" /\ Len(prop.maximum) = 1
       /\ JSGreater(value, prop.maximum[1])
  THEN <<"Field " \o key \o " must be <= " \o ToString(prop.maximum[1])>>
  ELSE <<>>

\* schema.properties is a plain object, so schema.properties?.[key] also
\* finds the members it inherits from Object.prototype: for these keys prop
\* is a function or an object (truthy) whose type is undefined, and no check
\* applies.
ObjectPrototypeKeys ==
  {"constructor", "toString", "toLocaleString", "valueOf", "hasOwnProperty",
   "isPrototypeOf", "propertyIsEnumerable", "__proto__"}

KeyErrors(key, value, schema) ==
  IF key \in DOMAIN schema.properties
  THEN LET prop == schema.properties[key] IN
         TypeErrors(key, value, prop) \o EnumErrors(key, value, prop)
           \o PatternErrors(key, value, prop)
           \o MinimumErrors(key, value, prop)
           \o MaximumErrors(key, value, prop)
  ELSE IF key \in ObjectPrototypeKeys
  THEN <<>>
  ELSE IF schema.additionalProperties = FALSE
  THEN <<"Additional property not allowed: " \o key>>
  ELSE <<>>

\* The checks of a key that convert the value: regex.test(value) converts
\* it to a string, value < prop.minimum and value > prop.maximum to a
\* number.  validateData raises when one of these conversions does.
KeyThrows(key, value, schema) ==
  /\ key \in DOMAIN schema.properties
  /\ LET prop == schema.properties[key] IN
       \/ prop.type = "string" /\ Len(prop.pattern) = 1
            /\ ToStringThrows(value)
       \/ prop.type = "integer"
            /\ (Len(prop.minimum) = 1 \/ Len(prop.maximum) = 1)
            /\ ToNumberThrows(value)

validateDataThrows(data, schema) ==
  \E i \in 1..Len(data) : KeyThrows(data[i].k, data[i].v, schema)

validateData(data, schema) ==
  LET errors ==
        RequiredErrors(data, schema)
          \o Flatten([i \in 1..Len(data) |->
                        KeyErrors(data[i].k, data[i].v, schema)])
  IN [isValid |-> Len(errors) = 0, errors |-> errors]

validateHappiness(data) == validateData(data, happinessSchema)

validateMedia(data) == validateData(data, mediaSchema)

\* The tagged result of a factory; the unused half is empty.
Success(entry) == [success |-> TRUE, data |-> entry, errors |-> <<>>]
Failure(errors) == [success |-> FALSE, data |-> <<>>, errors |-> errors]

createHappinessEntry(date, happiness) ==
  LET entry == <<Field("date", date), Field("happiness", happiness)>>
      validation == validateHappiness(entry)
  IN IF validation.isValid THEN Success(entry)
     ELSE Failure(validation.errors)

\* createHappinessEntry has no try/catch: it raises when validateData does
createHappinessEntryThrows(date, happiness) ==
  validateDataThrows(<<Field("date", date), Field("happiness", happiness)>>,
                     happinessSchema)

(***************************************************************************)
(* generateUUID.  rnd[i] is the value of Math.random() * 16 | 0 at the     *)
(* i-th replaced character of the template.                                *)
(***************************************************************************)
UUIDTemplate == "xxxxxxxx-xxxx-4xxx-yxxx-xxxxxxxxxxxx"

HexChar(v) ==
  CASE v = 0 -> "0" [] v = 1 -> "1" [] v = 2 -> "2" [] v = 3 -> "3"
    [] v = 4 -> "4" [] v = 5 -> "5" [] v = 6 -> "6" [] v = 7 -> "7"
    [] v = 8 -> "8" [] v = 9 -> "9" [] v = 10 -> "a" [] v = 11 -> "b"
    [] v = 12 -> "c" [] v = 13 -> "d" [] v = 14 -> "e" [] v = 15 -> "f"

\* r & 0x3 | 0x8
VariantNibble(r) == (r % 4) + 8

\* Variant: only the x characters of the template are replaced (/[x]/g)
ReplaceChar_OnlyX(c, r) ==
  IF c = "x" THEN HexChar(r) ELSE c

ReplaceChar(c, r) ==
  IF c = "x" THEN HexChar(r)
  ELSE IF c = "y" THEN HexChar(VariantNibble(r))
  ELSE c

RECURSIVE ReplaceFrom(_, _, _)
ReplaceFrom(template, i, rnd) ==
  IF i > Len(template) THEN ""
  ELSE ReplaceChar(CharAt(template, i), rnd[i])
         \o ReplaceFrom(template, i + 1, rnd)

generateUUID(rnd) == ReplaceFrom(UUIDTemplate, 1, rnd)

createMediaEntry(date, type, duration, id, rnd) ==
  LET entry == <<Field("id", IF Truthy(id) THEN id
                             ELSE Str(generateUUID(rnd))),
                 Field("date", date), Field("type", type),
                 Field("duration", duration)>>
      validation == validateMedia(entry)
  IN IF validation.isValid THEN Success(entry)
     ELSE Failure(validation.errors)

\* the entry object createMediaEntry builds
mediaEntryOf(date, type, duration, id, rnd) ==
  <<Field("id", IF Truthy(id) THEN id ELSE Str(generateUUID(rnd))),
    Field("date", date), Field("type", type), Field("duration", duration)>>

createMediaEntryThrows(date, type, duration, id) ==
  validateDataThrows(<<Field("id", id), Field("date", date),
                       Field("type", type), Field("duration", duration)>>,
                     mediaSchema)

(***************************************************************************)
(* new Date(string) for the date-only ISO form: the time value at UTC      *)
(* midnight, or NaN (an Invalid Date).  Time values are kept in days       *)
(* since the epoch (the millisecond value divided by 86400000, which is    *)
(* exact at midnight) so that they fit the checker's integers.             *)
(***************************************************************************)
IsLeapYear(y) == (y % 4 = 0 /\ y % 100 # 0) \/ y % 400 = 0

DaysInMonth(y, m) ==
  IF m = 2 THEN (IF IsLeapYear(y) THEN 29 ELSE 28)
  ELSE IF m \in {4, 6, 9, 11} THEN 30 ELSE 31

DaysFromCivil(y, m, d) ==
  LET yy == IF m <= 2 THEN y - 1 ELSE y
      era == yy \div 400
      yoe == yy - era * 400
      mp == IF m > 2 THEN m - 3 ELSE m + 9
      doy == (153 * mp + 2) \div 5 + d - 1
      doe == yoe * 365 + yoe \div 4 - yoe \div 100 + doy
  IN era * 146097 + doe - 719468

\* The date-only form YYYY-MM-DD of the ISO date-time string format
IsoDateOnly ==
  Repeat("digit", 4) \o <<"dash">> \o Repeat("digit", 2) \o <<"dash">>
    \o Repeat("digit", 2)

DateNew(v) ==
  IF v.t = "string" /\ RegExpTest(IsoDateOnly, v)
  THEN LET c(i) == DigitVal(CharAt(v.s, i))
           y == 1000 * c(1) + 100 * c(2) + 10 * c(3) + c(4)
           m == 10 * c(6) + c(7)
           d == 10 * c(9) + c(10)
       IN IF m \in 1..12 /\ d \in 1..DaysInMonth(y, m)
          THEN Num(DaysFromCivil(y, m, d))
          ELSE NaN
  ELSE NaN

\* (a, b) => new Date(b.date) - new Date(a.date), on the two time values;
\* a NaN result counts as 0
compareByDateDesc(ta, tb) ==
  IF ta.t = "number" /\ tb.t = "number" THEN (tb.n - ta.n) \div 2 ELSE 0

\* Array.prototype.sort is stable: an element is placed before the first
\* element that the comparator orders after it.  order is the list of the
\* indices placed so far, time[i] the time value of list[i].
RECURSIVE InsertSorted(_, _, _)
InsertSorted(order, i, time) ==
  IF Len(order) = 0 THEN <<i>>
  ELSE IF compareByDateDesc(time[Head(order)], time[i]) > 0
  THEN <<i>> \o order
  ELSE <<Head(order)>> \o InsertSorted(Tail(order), i, time)

RECURSIVE SortFrom(_, _, _, _)
SortFrom(order, i, n, time) ==
  IF i > n THEN order
  ELSE SortFrom(InsertSorted(order, i, time), i + 1, n, time)

sortByDateDesc(list) ==
  LET time == [i \in 1..Len(list) |-> DateNew(Get(list[i], "date"))]
      order == SortFrom(<<>>, 1, Len(list), time)
  IN [k \in 1..Len(list) |-> list[order[k]]]

JSStrictEq(a, b) == a.t # "nan" /\ a = b

(***************************************************************************)
(* The collection handlers of Home: each is the state updater the handler  *)
(* passes to setEntries / setMediaEntries.                                 *)
(***************************************************************************)
\* Variant: the entry of the same date is not removed first
handleEntryAdded_NoFilter(prevEntries, newEntry) ==
  sortByDateDesc(<<newEntry>> \o prevEntries)

handleEntryAdded(prevEntries, newEntry) ==
  LET filtered ==
        SelectSeq(prevEntries,
                  LAMBDA entry :
                    ~JSStrictEq(Get(entry, "date"), Get(newEntry, "date")))
  IN sortByDateDesc(<<newEntry>> \o filtered)

\* Variant: the delete key is the date alone
deleteKey_DateOnly(entry) == JSToString(Get(entry, "date"))

deleteKey(entry) ==
  JSToString(Get(entry, "date")) \o "-" \o JSToString(Get(entry, "happiness"))

handleDeleteEntries(prevEntries, entriesToDelete) ==
  LET deleteSet ==
        {deleteKey(entriesToDelete[i]) : i \in 1..Len(entriesToDelete)}
  IN SelectSeq(prevEntries, LAMBDA entry : deleteKey(entry) \notin deleteSet)

\* Variant: the entry occupying the new date is not removed
handleUpdateEntry_KeepNewDate(prevEntries, oldEntry, newEntry) ==
  LET filtered ==
        SelectSeq(prevEntries,
                  LAMBDA entry :
                    ~(/\ JSStrictEq(Get(entry, "date"), Get(oldEntry, "date"))
                      /\ JSStrictEq(Get(entry, "happiness"),
                                    Get(oldEntry, "happiness"))))
  IN sortByDateDesc(<<newEntry>> \o filtered)

handleUpdateEntry(prevEntries, oldEntry, newEntry) ==
  LET filtered ==
        SelectSeq(prevEntries,
                  LAMBDA entry :
                    ~(/\ JSStrictEq(Get(entry, "date"), Get(oldEntry, "date"))
                      /\ JSStrictEq(Get(entry, "happiness"),
                                    Get(oldEntry, "happiness"))))
      filteredByNewDate ==
        IF ~JSStrictEq(Get(newEntry, "date"), Get(oldEntry, "date"))
        THEN SelectSeq(filtered,
                       LAMBDA entry :
                         ~JSStrictEq(Get(entry, "date"),
                                     Get(newEntry, "date")))
        ELSE filtered
  IN sortByDateDesc(<<newEntry>> \o filteredByNewDate)

\* Variant: the stored entries of the dates of the new entries are dropped
handleMediaEntriesAdded_OnePerDate(prevMedia, newMediaEntries) ==
  sortByDateDesc(
    newMediaEntries
      \o SelectSeq(prevMedia,
                   LAMBDA media :
                     \A i \in 1..Len(newMediaEntries) :
                       Get(media, "date") # Get(newMediaEntries[i], "date")))

handleMediaEntriesAdded(prevMedia, newMediaEntries) ==
  sortByDateDesc(newMediaEntries \o prevMedia)

handleMediaEntryDeleted(prevMedia, mediaEntry) ==
  SelectSeq(prevMedia,
            LAMBDA media : ~JSStrictEq(Get(media, "id"), Get(mediaEntry, "id")))

handleMediaEntryAdded(prevMedia, newEntry) ==
  sortByDateDesc(<<newEntry>> \o prevMedia)

\* Variant: the collection is sorted again after the replacement
handleMediaEntryUpdated_Sorted(prevMedia, oldEntry, newEntry) ==
  sortByDateDesc([i \in 1..Len(prevMedia) |->
                    IF JSStrictEq(Get(prevMedia[i], "id"), Get(oldEntry, "id"))
                    THEN newEntry ELSE prevMedia[i]])

handleMediaEntryUpdated(prevMedia, oldEntry, newEntry) ==
  [i \in 1..Len(prevMedia) |->
     IF JSStrictEq(Get(prevMedia[i], "id"), Get(oldEntry, "id"))
     THEN newEntry ELSE prevMedia[i]]

\* Variant: only the first entry of the list is deleted
handleDeleteMediaEntries_FirstOnly(prevMedia, entriesToDelete) ==
  IF Len(entriesToDelete) = 0 THEN prevMedia
  ELSE SelectSeq(prevMedia,
                 LAMBDA entry :
                   Get(entry, "id") # Get(entriesToDelete[1], "id"))

handleDeleteMediaEntries(prevMedia, entriesToDelete) ==
  LET deleteSet ==
        {Get(entriesToDelete[i], "id") : i \in 1..Len(entriesToDelete)}
  IN SelectSeq(prevMedia, LAMBDA entry : Get(entry, "id") \notin deleteSet)

(***************************************************************************)
(* State of the Home page and of the open form, and the record of the      *)
(* last handler that ran (its arguments and the collection it was given).  *)
(***************************************************************************)
VARIABLES
  entries,            \* useState([]) : happiness collection
  mediaEntries,       \* useState([]) : media collection
  showFormModal,      \* the happiness form is mounted
  editingEntry,       \* initialEntry of the happiness form, <<>> for null
  formDate,           \* HappinessForm: date
  formMedia,          \* HappinessForm: mediaEntries (the fieldsets)
  showMediaFormModal, \* the media form is mounted
  editingMediaEntry,  \* initialEntry of the media form, <<>> for null
  last,               \* the last handler call
  call,               \* factory call under evaluation
  result,             \* its result
  storage,            \* localStorage: the item of each of the two keys
  isLoaded,           \* useState(false) : the initial load has run
  phase,              \* what React runs next: an effect, a render, or idle
  queued,             \* state updates queued by the load effect
  saved,              \* outcome of the last run of the save effect
  faults,             \* localStorage calls that raised so far
  activeTab,          \* useState('happiness') : the table that is mounted
  rowSelection,       \* mounted table: ids of the selected rows
  showDeleteDialog,   \* mounted table: the confirm dialog is open
  editingCell,        \* HappinessTable: id of the row being edited, "" for null
  editValue,          \* HappinessTable: text of the edit input
  errors              \* mounted form: errors (the list shown)

homeVars == <<entries, mediaEntries>>
formVars == <<showFormModal, editingEntry, formDate, formMedia,
              showMediaFormModal, editingMediaEntry, errors>>
factoryVars == <<call, result>>
storageVars == <<storage, isLoaded, phase, queued, saved, faults>>
tableVars == <<activeTab, rowSelection, showDeleteDialog, editingCell,
               editValue>>
vars == <<entries, mediaEntries, showFormModal, editingEntry, formDate,
          formMedia, showMediaFormModal, editingMediaEntry, last, call,
          result, storage, isLoaded, phase, queued, saved, faults,
          activeTab, rowSelection, showDeleteDialog, editingCell, editValue,
          errors>>

\* Bounds of the exploration
MaxEntries == 3
MaxDelete == 2

HappinessEntry(date, happiness) ==
  <<Field("date", Str(date)), Field("happiness", Num(happiness))>>

MediaEntry(id, date, type, duration) ==
  <<Field("id", Str(id)), Field("date", Str(date)), Field("type", Str(type)),
    Field("duration", Num(duration))>>

DateStrings == {"2023-01-01", "2024-10-23", "2024-12-25"}
ReducerLevels == {-1, 2}
ReducerEntries ==
  {HappinessEntry(d, h) : d \in DateStrings, h \in ReducerLevels}

RECURSIVE SetToSeq(_)
SetToSeq(S) ==
  IF S = {} THEN <<>>
  ELSE LET x == CHOOSE x \in S : TRUE IN <<x>> \o SetToSeq(S \ {x})

NoCall == [fn |-> "none", date |-> Undefined, happiness |-> Undefined,
           type |-> Undefined, duration |-> Undefined, id |-> Undefined,
           rnd |-> <<>>, data |-> <<>>]
\* done: the call has returned; raised: it has thrown instead
NoResult == [success |-> FALSE, data |-> <<>>, errors |-> <<>>,
             done |-> FALSE, raised |-> FALSE]

Call(op, a, b, list, prev) ==
  [op |-> op, a |-> a, b |-> b, list |-> list, prev |-> prev]

InitHome ==
  /\ entries = <<>>
  /\ mediaEntries = <<>>
  /\ last = Call("none", <<>>, <<>>, <<>>, <<>>)

InitForms ==
  /\ showFormModal = FALSE
  /\ editingEntry = <<>>
  /\ formDate = ""
  /\ formMedia = <<>>
  /\ showMediaFormModal = FALSE
  /\ editingMediaEntry = <<>>
  /\ errors = <<>>

InitNoCall ==
  /\ call = NoCall
  /\ result = NoResult

\* An item of localStorage is absent (getItem returns null) or a string
NoItem == <<>>
Item(text) == <<text>>

\* The run of the save effect: its outcome and the collections it was
\* given
SaveRun(outcome, list, media) ==
  [outcome |-> outcome, entries |-> list, media |-> media]
NoSave == SaveRun("none", <<>>, <<>>)

\* Home mounted on empty storage, load and first save left out
\* the tables as they are mounted
InitTables ==
  /\ activeTab = "happiness"
  /\ rowSelection = {}
  /\ showDeleteDialog = FALSE
  /\ editingCell = ""
  /\ editValue = ""

InitNoStorage ==
  /\ storage = [entries |-> NoItem, media |-> NoItem]
  /\ isLoaded = FALSE
  /\ phase = "idle"
  /\ queued = <<>>
  /\ saved = NoSave
  /\ faults = 0

(***************************************************************************)
(* Happiness collection: the three handlers, called with any entries.      *)
(***************************************************************************)
EntryAdded(newEntry) ==
  /\ LET next == handleEntryAdded(entries, newEntry)
     IN Len(next) <= MaxEntries /\ entries' = next
  /\ last' = Call("handleEntryAdded", newEntry, <<>>, <<>>, entries)
  /\ UNCHANGED <<mediaEntries, formVars, factoryVars,
                 storageVars, tableVars>>

\* Variant: deleting happiness entries also deletes the media of their dates
DeleteEntries_Cascade(entriesToDelete) ==
  /\ entries' = handleDeleteEntries(entries, entriesToDelete)
  /\ mediaEntries' =
       SelectSeq(mediaEntries,
                 LAMBDA media :
                   \A i \in 1..Len(entriesToDelete) :
                     Get(media, "date") # Get(entriesToDelete[i], "date"))
  /\ last' = Call("handleDeleteEntries", <<>>, <<>>, entriesToDelete, entries)
  /\ UNCHANGED <<formVars, factoryVars, storageVars, tableVars>>

DeleteEntries(entriesToDelete) ==
  /\ entries' = handleDeleteEntries(entries, entriesToDelete)
  /\ last' = Call("handleDeleteEntries", <<>>, <<>>, entriesToDelete, entries)
  /\ UNCHANGED <<mediaEntries, formVars, factoryVars,
                 storageVars, tableVars>>

UpdateEntry(oldEntry, newEntry) ==
  /\ LET next == handleUpdateEntry(entries, oldEntry, newEntry)
     IN Len(next) <= MaxEntries /\ entries' = next
  /\ last' = Call("handleUpdateEntry", oldEntry, newEntry, <<>>, entries)
  /\ UNCHANGED <<mediaEntries, formVars, factoryVars,
                 storageVars, tableVars>>

AnyEntryAdded == \E e \in ReducerEntries : EntryAdded(e)
AnyDeleteEntries ==
  \E S \in SUBSET ReducerEntries :
    Cardinality(S) <= MaxDelete /\ DeleteEntries(SetToSeq(S))
AnyUpdateEntry == \E o \in ReducerEntries, n \in ReducerEntries : UpdateEntry(o, n)

InitHappiness == InitHome /\ InitForms /\ InitNoCall /\ InitNoStorage /\ InitTables
NextHappiness == AnyEntryAdded \/ AnyDeleteEntries \/ AnyUpdateEntry
SpecHappiness == InitHappiness /\ [][NextHappiness]_vars

(***************************************************************************)
(* Media collection and the two forms.  The happiness form is mounted      *)
(* while showFormModal holds, the media form while showMediaFormModal      *)
(* holds; a form's fields other than the date of the happiness form are    *)
(* drawn when the form is submitted.                                       *)
(***************************************************************************)
MaxMedia == 2
MaxFieldsets == 2

\* getTodayDate()
Today == "2024-10-23"

FormDates == {"2024-10-23", "2024-12-25", ""}
\* dates picked in the happiness form of the media exploration
PickedDates == {"2024-10-23", "2024-12-25"}
FormLevels == {0}
FormTypes == {"video"}
\* the duration field: the initial number or the text typed into the input
FormDurations == {Num(30), Str("")}

\* parseInt(value)
RECURSIVE LeadingDigits(_)
LeadingDigits(s) ==
  IF Len(s) = 0 \/ CharAt(s, 1) \notin Digits THEN ""
  ELSE CharAt(s, 1) \o LeadingDigits(SubSeq(s, 2, Len(s)))

JSParseInt(v) ==
  LET s == JSToString(v)
      negative == Len(s) > 0 /\ CharAt(s, 1) = "-"
      digits == LeadingDigits(IF negative THEN SubSeq(s, 2, Len(s)) ELSE s)
  IN IF Len(digits) = 0 THEN NaN
     ELSE IF negative THEN Num(0 - DecimalVal(digits))
     ELSE Num(DecimalVal(digits))

\* Random streams of the identifiers generated in the media exploration
MediaStreams ==
  {[i \in 1..Len(UUIDTemplate) |-> (seed + i) % 16] : seed \in {0, 5, 10}}

IdsInUse ==
  {Get(mediaEntries[i], "id") : i \in 1..Len(mediaEntries)}
    \cup {Get(formMedia[i], "id") : i \in 1..Len(formMedia)}
    \cup {Get(editingMediaEntry, "id")}

\* Math.random: a generated identifier is unique with overwhelming
\* probability, so the streams drawn are those whose identifier is unused.
StreamId == [rnd \in MediaStreams |-> Str(generateUUID(rnd))]
FreshStream(rnd) == StreamId[rnd] \notin IdsInUse

getMediaEntriesForDate(allMediaEntries, selectedDate) ==
  SelectSeq(allMediaEntries,
            LAMBDA media : JSStrictEq(Get(media, "date"), Str(selectedDate)))

NoModal == ~showFormModal /\ ~showMediaFormModal

MountHappinessForm(initialEntry) ==
  LET date == IF initialEntry # <<>> /\ Truthy(Get(initialEntry, "date"))
              THEN Get(initialEntry, "date").s ELSE Today
  IN /\ formDate' = date
     /\ formMedia' = getMediaEntriesForDate(mediaEntries, date)
     /\ errors' = <<>>

\* Variant: the callbacks of Home leave the modal of the form open
UnmountHappinessForm_StaysOpen ==
  /\ showFormModal' = TRUE
  /\ UNCHANGED <<editingEntry, formDate, formMedia, errors>>

UnmountHappinessForm ==
  /\ showFormModal' = FALSE
  /\ editingEntry' = <<>>
  /\ formDate' = ""
  /\ formMedia' = <<>>
  /\ errors' = <<>>

OpenForm ==
  /\ NoModal
  /\ editingEntry' = <<>>
  /\ showFormModal' = TRUE
  /\ MountHappinessForm(<<>>)
  /\ UNCHANGED <<homeVars, showMediaFormModal, editingMediaEntry, last,
                 factoryVars,
                 storageVars, tableVars>>

EditEntry(entry) ==
  /\ NoModal
  /\ editingEntry' = entry
  /\ showFormModal' = TRUE
  /\ MountHappinessForm(entry)
  /\ UNCHANGED <<homeVars, showMediaFormModal, editingMediaEntry, last,
                 factoryVars,
                 storageVars, tableVars>>

CloseForm ==
  /\ showFormModal
  /\ UnmountHappinessForm
  /\ UNCHANGED <<homeVars, showMediaFormModal, editingMediaEntry, last,
                 factoryVars,
                 storageVars, tableVars>>

DateChange(newDate) ==
  /\ showFormModal
  /\ formDate' = newDate
  /\ formMedia' = getMediaEntriesForDate(mediaEntries, newDate)
  /\ UNCHANGED <<homeVars, showFormModal, editingEntry, showMediaFormModal,
                 editingMediaEntry, errors, last, factoryVars,
                 storageVars, tableVars>>

AddMediaEntry ==
  /\ showFormModal
  /\ Len(formMedia) < MaxFieldsets
  /\ formMedia' = formMedia \o <<<<Field("type", Str("book")),
                                   Field("duration", Num(30))>>>>
  /\ UNCHANGED <<homeVars, showFormModal, editingEntry, formDate,
                 showMediaFormModal, editingMediaEntry, errors, last,
                 factoryVars,
                 storageVars, tableVars>>

\* Variant: the fieldset is removed from the form alone
RemoveMediaEntry_FormOnly(index) ==
  /\ showFormModal
  /\ index \in 1..Len(formMedia)
  /\ formMedia' = [i \in 1..(Len(formMedia) - 1) |->
                     IF i < index THEN formMedia[i] ELSE formMedia[i + 1]]
  /\ UNCHANGED <<homeVars, showFormModal, editingEntry, formDate,
                 showMediaFormModal, editingMediaEntry, errors, last,
                 factoryVars, storageVars, tableVars>>

RemoveMediaEntry(index) ==
  /\ showFormModal
  /\ index \in 1..Len(formMedia)
  /\ LET mediaToRemove == formMedia[index] IN
       /\ formMedia' = [i \in 1..(Len(formMedia) - 1) |->
                          IF i < index THEN formMedia[i] ELSE formMedia[i + 1]]
       /\ IF Truthy(Get(mediaToRemove, "id"))
          THEN /\ mediaEntries' =
                    handleMediaEntryDeleted(mediaEntries, mediaToRemove)
               /\ last' = Call("handleMediaEntryDeleted", mediaToRemove, <<>>,
                               <<>>, mediaEntries)
          ELSE UNCHANGED <<mediaEntries, last>>
  /\ UNCHANGED <<entries, showFormModal, editingEntry, formDate,
                 showMediaFormModal, editingMediaEntry, errors, factoryVars,
                 storageVars, tableVars>>

\* errors.map(e => `${prefix}${e}`)
Prefixed(prefix, list) == [i \in 1..Len(list) |-> prefix \o list[i]]

\* HappinessForm.handleSubmit with the callbacks Home passes to the form
SubmitHappinessForm(happiness, rnds) ==
  /\ showFormModal
  /\ LET happinessResult ==
           createHappinessEntry(Str(formDate), JSParseInt(Num(happiness)))
         mediaResults ==
           [i \in 1..Len(formMedia) |->
              createMediaEntry(Str(formDate), Get(formMedia[i], "type"),
                               Get(formMedia[i], "duration"),
                               Get(formMedia[i], "id"), rnds[i])]
         allErrors ==
           Prefixed("Happiness: ", happinessResult.errors)
             \o Flatten([i \in 1..Len(formMedia) |->
                           Prefixed("Media " \o JSToString(Num(i)) \o ": ",
                                    mediaResults[i].errors)])
         validMediaEntries ==
           [i \in 1..Len(formMedia) |-> mediaResults[i].data]
         nextEntries ==
           IF editingEntry # <<>>
           THEN handleUpdateEntry(entries, editingEntry, happinessResult.data)
           ELSE handleEntryAdded(entries, happinessResult.data)
         nextMedia == handleMediaEntriesAdded(mediaEntries, validMediaEntries)
     IN IF Len(allErrors) = 0
        THEN /\ Len(nextEntries) <= MaxEntries
             /\ Len(nextMedia) <= MaxMedia
             /\ entries' = nextEntries
             /\ mediaEntries' = nextMedia
             /\ last' = Call("handleMediaEntriesAdded", <<>>, <<>>,
                             validMediaEntries, mediaEntries)
             /\ UnmountHappinessForm
        ELSE /\ errors' = allErrors
             /\ UNCHANGED <<homeVars, showFormModal, editingEntry, formDate,
                            formMedia, last>>
  /\ UNCHANGED <<showMediaFormModal, editingMediaEntry, factoryVars,
                 storageVars, tableVars>>

\* one stream per fieldset; the fieldsets without id get distinct unused ids
FieldsetStreams ==
  {rnds \in [1..Len(formMedia) -> MediaStreams] :
     \A i \in 1..Len(formMedia) :
       IF Truthy(Get(formMedia[i], "id"))
       THEN rnds[i] = CHOOSE r \in MediaStreams : TRUE
       ELSE /\ FreshStream(rnds[i])
            /\ \A j \in 1..(i - 1) :
                 Truthy(Get(formMedia[j], "id")) \/ rnds[j] # rnds[i]}

OpenMediaForm ==
  /\ NoModal
  /\ editingMediaEntry' = <<>>
  /\ showMediaFormModal' = TRUE
  /\ errors' = <<>>
  /\ UNCHANGED <<homeVars, showFormModal, editingEntry, formDate, formMedia,
                 last, factoryVars,
                 storageVars, tableVars>>

EditMediaEntry(entry) ==
  /\ NoModal
  /\ editingMediaEntry' = entry
  /\ showMediaFormModal' = TRUE
  /\ errors' = <<>>
  /\ UNCHANGED <<homeVars, showFormModal, editingEntry, formDate, formMedia,
                 last, factoryVars,
                 storageVars, tableVars>>

CloseMediaForm ==
  /\ showMediaFormModal
  /\ showMediaFormModal' = FALSE
  /\ editingMediaEntry' = <<>>
  /\ errors' = <<>>
  /\ UNCHANGED <<homeVars, showFormModal, editingEntry, formDate, formMedia,
                 last, factoryVars,
                 storageVars, tableVars>>

\* MediaForm.handleSubmit with the callbacks Home passes to the form
SubmitMediaForm(date, type, duration, rnd) ==
  /\ showMediaFormModal
  /\ LET res == createMediaEntry(Str(date), Str(type), JSParseInt(duration),
                                 Get(editingMediaEntry, "id"), rnd)
     IN IF res.success
        THEN /\ IF editingMediaEntry # <<>>
                THEN /\ mediaEntries' =
                          handleMediaEntryUpdated(mediaEntries,
                                                  editingMediaEntry, res.data)
                     /\ last' = Call("handleMediaEntryUpdated",
                                     editingMediaEntry, res.data, <<>>,
                                     mediaEntries)
                ELSE /\ Len(mediaEntries) < MaxMedia
                     /\ mediaEntries' =
                          handleMediaEntryAdded(mediaEntries, res.data)
                     /\ last' = Call("handleMediaEntryAdded", res.data, <<>>,
                                     <<>>, mediaEntries)
             /\ showMediaFormModal' = FALSE
             /\ editingMediaEntry' = <<>>
             /\ errors' = <<>>
        ELSE /\ errors' = res.errors
             /\ UNCHANGED <<mediaEntries, last, showMediaFormModal,
                            editingMediaEntry>>
  /\ UNCHANGED <<entries, showFormModal, editingEntry, formDate, formMedia,
                 factoryVars,
                 storageVars, tableVars>>

\* MediaTable: delete of the selected rows
DeleteMediaEntries(entriesToDelete) ==
  /\ NoModal
  /\ mediaEntries' = handleDeleteMediaEntries(mediaEntries, entriesToDelete)
  /\ last' = Call("handleDeleteMediaEntries", <<>>, <<>>, entriesToDelete,
                  mediaEntries)
  /\ UNCHANGED <<entries, formVars, factoryVars,
                 storageVars, tableVars>>

RowsOf(list) == {list[i] : i \in 1..Len(list)}

AnyEditEntry == \E entry \in RowsOf(entries) : EditEntry(entry)
AnyDateChange == \E newDate \in PickedDates : DateChange(newDate)
AnyRemoveMediaEntry == \E index \in 1..MaxFieldsets : RemoveMediaEntry(index)
AnySubmitHappinessForm ==
  /\ showFormModal
  /\ \E happiness \in FormLevels, rnds \in FieldsetStreams :
       SubmitHappinessForm(happiness, rnds)
AnyEditMediaEntry == \E entry \in RowsOf(mediaEntries) : EditMediaEntry(entry)
AnySubmitMediaForm ==
  /\ showMediaFormModal
  /\ \E rnd \in MediaStreams :
       /\ IF editingMediaEntry # <<>>
          THEN rnd = CHOOSE r \in MediaStreams : TRUE
          ELSE FreshStream(rnd)
       /\ \E date \in FormDates, type \in FormTypes,
             duration \in FormDurations :
            SubmitMediaForm(date, type, duration, rnd)
AnyDeleteMediaEntries ==
  \E S \in SUBSET RowsOf(mediaEntries) :
    /\ S # {}
    /\ Cardinality(S) <= MaxDelete
    /\ DeleteMediaEntries(SetToSeq(S))

InitMedia == InitHome /\ InitForms /\ InitNoCall /\ InitNoStorage /\ InitTables
NextMedia ==
  \/ OpenForm
  \/ AnyEditEntry
  \/ CloseForm
  \/ AnyDateChange
  \/ AddMediaEntry
  \/ AnyRemoveMediaEntry
  \/ AnySubmitHappinessForm
  \/ OpenMediaForm
  \/ AnyEditMediaEntry
  \/ CloseMediaForm
  \/ AnySubmitMediaForm
  \/ AnyDeleteMediaEntries
SpecMedia == InitMedia /\ [][NextMedia]_vars

(***************************************************************************)
(* Both collections under the eight collection handlers of Home, each      *)
(* called on its own with any entries as arguments.                        *)
(***************************************************************************)
MaxReducerMedia == 3
MaxBatch == 2

ReducerIds ==
  {"550e8400-e29b-41d4-a716-446655440000",
   "550e8400-e29b-41d4-a716-446655440001"}
ReducerMediaDates == {"2024-10-23", "2024-12-25"}
ReducerMedia ==
  {MediaEntry(id, d, "video", 30) : id \in ReducerIds, d \in ReducerMediaDates}
\* an entry that is never added: its id matches no stored entry
AbsentMedia ==
  MediaEntry("550e8400-e29b-41d4-a716-446655440002", "2024-10-23", "video",
             30)
\* the happiness entries of this exploration, one per date
PairedEntries ==
  {HappinessEntry("2024-10-23", 2), HappinessEntry("2024-12-25", -1)}

MediaEntriesAdded(newMediaEntries) ==
  /\ Len(mediaEntries) + Len(newMediaEntries) <= MaxReducerMedia
  /\ mediaEntries' = handleMediaEntriesAdded(mediaEntries, newMediaEntries)
  /\ last' = Call("handleMediaEntriesAdded", <<>>, <<>>, newMediaEntries,
                  mediaEntries)
  /\ UNCHANGED <<entries, formVars, factoryVars, storageVars, tableVars>>

MediaEntryAdded(newEntry) ==
  /\ Len(mediaEntries) < MaxReducerMedia
  /\ mediaEntries' = handleMediaEntryAdded(mediaEntries, newEntry)
  /\ last' = Call("handleMediaEntryAdded", newEntry, <<>>, <<>>, mediaEntries)
  /\ UNCHANGED <<entries, formVars, factoryVars, storageVars, tableVars>>

MediaEntryUpdated(oldEntry, newEntry) ==
  /\ mediaEntries' = handleMediaEntryUpdated(mediaEntries, oldEntry, newEntry)
  /\ last' = Call("handleMediaEntryUpdated", oldEntry, newEntry, <<>>,
                  mediaEntries)
  /\ UNCHANGED <<entries, formVars, factoryVars, storageVars, tableVars>>

MediaEntryDeleted(mediaEntry) ==
  /\ mediaEntries' = handleMediaEntryDeleted(mediaEntries, mediaEntry)
  /\ last' = Call("handleMediaEntryDeleted", mediaEntry, <<>>, <<>>,
                  mediaEntries)
  /\ UNCHANGED <<entries, formVars, factoryVars, storageVars, tableVars>>

\* the lists of at most MaxBatch distinct members of a set, in both orders
BatchesOf(S) ==
  {<<>>} \cup {<<x>> : x \in S}
    \cup (IF MaxBatch >= 2
          THEN {p \in S \X S : p[1] # p[2]} ELSE {})
    \cup (IF MaxBatch >= 3
          THEN {SetToSeq(T) : T \in {U \in SUBSET S : Cardinality(U) = 3}}
          ELSE {})

PairEntryAdded == \E e \in PairedEntries : EntryAdded(e)
PairDeleteEntries ==
  \E S \in SUBSET PairedEntries : DeleteEntries(SetToSeq(S))
PairUpdateEntry ==
  \E o \in PairedEntries, n \in PairedEntries : UpdateEntry(o, n)
AnyMediaEntriesAdded ==
  \E list \in BatchesOf(ReducerMedia) : MediaEntriesAdded(list)
AnyMediaEntryAdded == \E e \in ReducerMedia : MediaEntryAdded(e)
AnyMediaEntryUpdated ==
  \E o \in ReducerMedia, n \in ReducerMedia : MediaEntryUpdated(o, n)
AnyMediaEntryDeleted ==
  \E e \in ReducerMedia \cup {AbsentMedia} : MediaEntryDeleted(e)
AnyMediaBatchDeleted ==
  \E list \in BatchesOf(ReducerMedia \cup {AbsentMedia}) :
    DeleteMediaEntries(list)

InitReducer == InitHome /\ InitForms /\ InitNoCall /\ InitNoStorage /\ InitTables
NextReducer ==
  \/ PairEntryAdded
  \/ PairDeleteEntries
  \/ PairUpdateEntry
  \/ AnyMediaEntriesAdded
  \/ AnyMediaEntryAdded
  \/ AnyMediaEntryUpdated
  \/ AnyMediaEntryDeleted
  \/ AnyMediaBatchDeleted
SpecReducer == InitReducer /\ [][NextReducer]_vars

(***************************************************************************)
(* JSON.stringify and JSON.parse on collections: arrays of flat objects    *)
(* whose values are strings, numbers and null, in the compact form         *)
(* JSON.stringify writes.                                                  *)
(***************************************************************************)
At(text, i) == IF i \in 1..Len(text) THEN SubSeq(text, i, i) ELSE ""

RECURSIVE JSONEscape(_)
JSONEscape(str) ==
  IF Len(str) = 0 THEN ""
  ELSE LET c == At(str, 1) IN
         (IF c = "\"" \/ c = "\\" THEN "\\" \o c ELSE c)
           \o JSONEscape(SubSeq(str, 2, Len(str)))

JSONQuote(str) == "\"" \o JSONEscape(str) \o "\""

\* Variant: a number is written as a quoted string
JSONStringifyValue_QuotedNumbers(v) ==
  CASE v.t = "string" -> JSONQuote(v.s)
    [] v.t = "number" -> JSONQuote(JSToString(v))
    [] OTHER -> "null"

\* a string is quoted, a finite number written in decimal, NaN and null
\* become null
JSONStringifyValue(v) ==
  CASE v.t = "string" -> JSONQuote(v.s)
    [] v.t = "number" -> JSToString(v)
    [] OTHER -> "null"

\* members whose value is undefined or a Symbol are left out
JSONStringifyObject(obj) ==
  LET kept == SelectSeq(obj, LAMBDA f : f.v.t \notin {"undefined", "symbol"})
  IN "{" \o Join([i \in 1..Len(kept) |->
                    JSONQuote(kept[i].k) \o ":"
                      \o JSONStringifyValue(kept[i].v)], ",")
       \o "}"

JSONStringify(list) ==
  "[" \o Join([i \in 1..Len(list) |-> JSONStringifyObject(list[i])], ",")
    \o "]"

\* A parse step returns the value and the position after it, or fails
\* (JSON.parse throws a SyntaxError).
Parsed(value, next) == [ok |-> TRUE, value |-> value, next |-> next]
ParseFail == [ok |-> FALSE, value |-> <<>>, next |-> 0]

\* the characters of a string up to its closing quote; i is the position
\* after the opening quote
RECURSIVE ParseStringBody(_, _, _)
ParseStringBody(text, i, acc) ==
  LET c == At(text, i) IN
    IF c = "" THEN ParseFail
    ELSE IF c = "\"" THEN Parsed(Str(acc), i + 1)
    ELSE IF c = "\\"
    THEN IF At(text, i + 1) \in {"\"", "\\", "/"}
         THEN ParseStringBody(text, i + 2, acc \o At(text, i + 1))
         ELSE ParseFail
    ELSE ParseStringBody(text, i + 1, acc \o c)

\* an integer, or a number with the fraction .5 or .0
NumberValue(text, sign, whole, after) ==
  IF At(text, after) # "." THEN Parsed(Num(sign * whole), after)
  ELSE IF At(text, after + 2) \in Digits THEN ParseFail
  ELSE IF At(text, after + 1) = "5"
  THEN Parsed(Half(sign * (2 * whole + 1)), after + 2)
  ELSE IF At(text, after + 1) = "0" THEN Parsed(Num(sign * whole), after + 2)
  ELSE ParseFail

NumberDigits(text, sign, start, digits) ==
  IF Len(digits) = 0 \/ (Len(digits) > 1 /\ At(digits, 1) = "0")
  THEN ParseFail
  ELSE NumberValue(text, sign, DecimalVal(digits), start + Len(digits))

NumberFrom(text, sign, start) ==
  NumberDigits(text, sign, start,
               LeadingDigits(SubSeq(text, start, Len(text))))

ParseNumber(text, i) ==
  IF At(text, i) = "-" THEN NumberFrom(text, -1, i + 1)
  ELSE NumberFrom(text, 1, i)

ParseValue(text, i) ==
  LET c == At(text, i) IN
    IF c = "\"" THEN ParseStringBody(text, i + 1, "")
    ELSE IF c = "-" \/ c \in Digits THEN ParseNumber(text, i)
    ELSE IF i + 3 <= Len(text) /\ SubSeq(text, i, i + 3) = "null"
    THEN Parsed(Null, i + 4)
    ELSE ParseFail

\* the members of an object from position i (a key) to the closing brace
RECURSIVE ParseMembers(_, _, _)
MemberValue(text, key, val, acc) ==
  IF ~val.ok THEN ParseFail
  ELSE IF At(text, val.next) = "}"
  THEN Parsed(acc \o <<Field(key, val.value)>>, val.next + 1)
  ELSE IF At(text, val.next) = ","
  THEN ParseMembers(text, val.next + 1, acc \o <<Field(key, val.value)>>)
  ELSE ParseFail

MemberKey(text, key, acc) ==
  IF ~key.ok \/ At(text, key.next) # ":" THEN ParseFail
  ELSE MemberValue(text, key.value.s, ParseValue(text, key.next + 1), acc)

ParseMembers(text, i, acc) ==
  IF At(text, i) # "\"" THEN ParseFail
  ELSE MemberKey(text, ParseStringBody(text, i + 1, ""), acc)

ParseObject(text, i) ==
  IF At(text, i) # "{" THEN ParseFail
  ELSE IF At(text, i + 1) = "}" THEN Parsed(<<>>, i + 2)
  ELSE ParseMembers(text, i + 1, <<>>)

\* the elements of an array from position i to the closing bracket
RECURSIVE ParseElements(_, _, _)
ElementsAfter(text, obj, acc) ==
  IF ~obj.ok THEN ParseFail
  ELSE IF At(text, obj.next) = "]"
  THEN Parsed(acc \o <<obj.value>>, obj.next + 1)
  ELSE IF At(text, obj.next) = ","
  THEN ParseElements(text, obj.next + 1, acc \o <<obj.value>>)
  ELSE ParseFail

ParseElements(text, i, acc) == ElementsAfter(text, ParseObject(text, i), acc)

\* nothing may follow the array
ParseWhole(text, list) ==
  IF list.ok /\ list.next = Len(text) + 1 THEN list ELSE ParseFail

JSONParse(text) ==
  ParseWhole(text, IF At(text, 1) # "[" THEN ParseFail
                   ELSE IF At(text, 2) = "]" THEN Parsed(<<>>, 3)
                   ELSE ParseElements(text, 2, <<>>))

(***************************************************************************)
(* Persistence.  Home mounts with empty collections; the load effect       *)
(* queues the stored collections and isLoaded, the save effect of the      *)
(* first render runs with that render's isLoaded (false), the next render  *)
(* applies the queued updates, and from then on every render that follows  *)
(* a change of entries, mediaEntries or isLoaded runs the save effect.     *)
(* React runs a pending effect before it handles the next event.           *)
(***************************************************************************)
MaxStored == 2
\* localStorage calls that raise, over a run
MaxFaults == 1

StoredHappinessText == "[{\"date\":\"2024-10-20\",\"happiness\":1}]"
StoredMediaText ==
  "[{\"id\":\"550e8400-e29b-41d4-a716-446655440000\",\"date\":\"2024-10-20\","
    \o "\"type\":\"book\",\"title\":\"The \\\"Great\\\" Gatsby\","
    \o "\"duration\":45}]"
CorruptText == "[{\"date\":"

\* what localStorage holds when the page is opened
InitialStorages ==
  {[entries |-> NoItem, media |-> NoItem],
   [entries |-> Item(StoredHappinessText), media |-> Item(StoredMediaText)],
   [entries |-> Item(""), media |-> Item(StoredMediaText)],
   [entries |-> Item(CorruptText), media |-> Item(StoredMediaText)],
   [entries |-> Item(StoredHappinessText), media |-> Item(CorruptText)]}

StorageEntries == {HappinessEntry(Today, 1)}
StorageMedia ==
  {MediaEntry("550e8400-e29b-41d4-a716-446655440001", Today, "video", 30)}

Update(variable, value) == [variable |-> variable, value |-> value]

\* if (stored): null and the empty string are falsy
Present(item) == item # NoItem /\ item[1] # ""

\* what a part of the try block did: whether it threw, and the state
\* updates it queued
Ran(threw, updates) == [threw |-> threw, updates |-> updates]

SetParsed(parse, variable) ==
  IF parse.ok THEN Ran(FALSE, <<Update(variable, parse.value)>>)
  ELSE Ran(TRUE, <<>>)

\* if (stored) set(JSON.parse(stored))
ReadItem(item, variable) ==
  IF Present(item) THEN SetParsed(JSONParse(item[1]), variable)
  ELSE Ran(FALSE, <<>>)

Then(first, second) ==
  IF first.threw THEN first
  ELSE Ran(second.threw, first.updates \o second.updates)

\* the try block of the load effect; readFails: the first
\* localStorage.getItem raises
LoadTry(readFails) ==
  IF readFails THEN Ran(TRUE, <<>>)
  ELSE Then(ReadItem(storage.entries, "entries"),
            ReadItem(storage.media, "mediaEntries"))

\* Variant: setIsLoaded(true) is called at the end of the try block
LoadFinally_InTry(readFails, try) ==
  /\ queued' = try.updates
                 \o (IF try.threw THEN <<>> ELSE <<Update("isLoaded", <<>>)>>)
  /\ last' = Call(IF readFails THEN "loadReadFailed"
                  ELSE IF try.threw THEN "loadParseFailed"
                  ELSE "load", <<>>, <<>>, <<>>, <<>>)

\* catch logs the error, finally calls setIsLoaded(true)
LoadFinally(readFails, try) ==
  /\ queued' = try.updates \o <<Update("isLoaded", <<>>)>>
  /\ last' = Call(IF readFails THEN "loadReadFailed"
                  ELSE IF try.threw THEN "loadParseFailed"
                  ELSE "load", <<>>, <<>>, <<>>, <<>>)

LoadEffect(readFails) ==
  /\ phase = "mount-load"
  /\ readFails => faults < MaxFaults
  /\ faults' = IF readFails THEN faults + 1 ELSE faults
  /\ LoadFinally(readFails, LoadTry(readFails))
  /\ phase' = "mount-save"
  /\ UNCHANGED <<homeVars, formVars, factoryVars, tableVars, storage, isLoaded, saved>>

\* Variant: the save effect does not test isLoaded
SaveEffectNotLoaded_Writes ==
  /\ phase \in {"mount-save", "save"}
  /\ ~isLoaded
  /\ storage' = [entries |-> Item(JSONStringify(entries)),
                 media |-> Item(JSONStringify(mediaEntries))]
  /\ phase' = IF phase = "mount-save" THEN "render" ELSE "idle"
  /\ UNCHANGED <<homeVars, formVars, factoryVars, tableVars, last, isLoaded, queued,
                 saved, faults>>

\* the save effect while isLoaded is false
SaveEffectNotLoaded ==
  /\ phase \in {"mount-save", "save"}
  /\ ~isLoaded
  /\ phase' = IF phase = "mount-save" THEN "render" ELSE "idle"
  /\ UNCHANGED <<homeVars, formVars, factoryVars, tableVars, last, storage, isLoaded,
                 queued, saved, faults>>

SaveOutcomes == {"ok", "failFirst", "failSecond"}

\* Variant: a failed save is run again
SaveEffect_Retry(outcome) ==
  /\ phase \in {"mount-save", "save"}
  /\ isLoaded
  /\ outcome # "ok" => faults < MaxFaults
  /\ faults' = IF outcome = "ok" THEN faults ELSE faults + 1
  /\ storage' =
       [entries |-> IF outcome = "failFirst" THEN storage.entries
                    ELSE Item(JSONStringify(entries)),
        media |-> IF outcome = "ok" THEN Item(JSONStringify(mediaEntries))
                  ELSE storage.media]
  /\ saved' = SaveRun(IF outcome = "ok" THEN "ok" ELSE "failed", entries,
                      mediaEntries)
  /\ phase' = IF outcome = "ok" THEN "idle" ELSE "save"
  /\ UNCHANGED <<homeVars, formVars, factoryVars, tableVars, last, isLoaded, queued>>

\* The save effect once isLoaded holds.  outcome: both setItem calls
\* return, the first raises, or the second raises; the exception is caught
\* and logged.
SaveEffect(outcome) ==
  /\ phase \in {"mount-save", "save"}
  /\ isLoaded
  /\ outcome # "ok" => faults < MaxFaults
  /\ faults' = IF outcome = "ok" THEN faults ELSE faults + 1
  /\ storage' =
       [entries |-> IF outcome = "failFirst" THEN storage.entries
                    ELSE Item(JSONStringify(entries)),
        media |-> IF outcome = "ok" THEN Item(JSONStringify(mediaEntries))
                  ELSE storage.media]
  /\ saved' = SaveRun(IF outcome = "ok" THEN "ok" ELSE "failed", entries,
                      mediaEntries)
  /\ phase' = "idle"
  /\ UNCHANGED <<homeVars, formVars, factoryVars, tableVars, last, isLoaded, queued>>

RECURSIVE Apply(_, _, _)
Apply(updates, variable, current) ==
  IF Len(updates) = 0 THEN current
  ELSE Apply(Tail(updates), variable,
             IF Head(updates).variable = variable
             THEN Head(updates).value ELSE current)

\* the render that applies the state updates queued by the load effect
Render ==
  /\ phase = "render"
  /\ entries' = Apply(queued, "entries", entries)
  /\ mediaEntries' = Apply(queued, "mediaEntries", mediaEntries)
  /\ isLoaded' = \E i \in 1..Len(queued) : queued[i].variable = "isLoaded"
  /\ queued' = <<>>
  /\ phase' = "save"
  /\ UNCHANGED <<formVars, factoryVars, tableVars, last, storage, saved, faults>>

\* A collection handler called from the page: the updater runs, Home
\* renders with the new collection and the save effect is pending.
HomeReady == phase = "idle" /\ isLoaded /\ NoModal

HomeOperation(nextEntries, nextMedia, op) ==
  /\ HomeReady
  /\ Len(nextEntries) <= MaxStored
  /\ Len(nextMedia) <= MaxStored
  /\ entries' = nextEntries
  /\ mediaEntries' = nextMedia
  /\ last' = Call(op, <<>>, <<>>, <<>>, <<>>)
  /\ phase' = "save"
  /\ UNCHANGED <<formVars, factoryVars, tableVars, storage, isLoaded, queued, saved,
                 faults>>

StoredEntryAdded(newEntry) ==
  HomeOperation(handleEntryAdded(entries, newEntry), mediaEntries,
                "handleEntryAdded")
StoredDeleteEntries(entriesToDelete) ==
  HomeOperation(handleDeleteEntries(entries, entriesToDelete), mediaEntries,
                "handleDeleteEntries")
StoredUpdateEntry(oldEntry, newEntry) ==
  HomeOperation(handleUpdateEntry(entries, oldEntry, newEntry), mediaEntries,
                "handleUpdateEntry")
StoredMediaEntryAdded(newEntry) ==
  HomeOperation(entries, handleMediaEntryAdded(mediaEntries, newEntry),
                "handleMediaEntryAdded")
StoredDeleteMediaEntries(entriesToDelete) ==
  HomeOperation(entries,
                handleDeleteMediaEntries(mediaEntries, entriesToDelete),
                "handleDeleteMediaEntries")

\* obj[field] = value
SetField(obj, field, value) ==
  IF HasKey(obj, field)
  THEN [i \in 1..Len(obj) |->
          IF obj[i].k = field THEN Field(field, value) ELSE obj[i]]
  ELSE obj \o <<Field(field, value)>>

\* The fieldsets of the happiness form that came from getMediaEntriesForDate
\* are the objects of Home's media collection that have the form's date
\* (Array.prototype.filter copies references), in the same order; a
\* fieldset added in the form, or one whose stored object has been deleted,
\* is an object of the form alone.  The position in Home's collection of
\* the object that is the index-th fieldset, 0 when Home does not hold it.
StoredIndexOf(index) ==
  LET onDate == {j \in 1..Len(mediaEntries) :
                   JSStrictEq(Get(mediaEntries[j], "date"), Str(formDate))}
      shared == {i \in 1..Len(formMedia) :
                   /\ Truthy(Get(formMedia[i], "id"))
                   /\ \E j \in onDate :
                        Get(mediaEntries[j], "id") = Get(formMedia[i], "id")}
  IN IF index \in shared
     THEN CHOOSE j \in onDate :
            Cardinality({k \in onDate : k <= j})
              = Cardinality({i \in shared : i <= index})
     ELSE 0

\* handleMediaEntryChange: updated[index][field] = ... writes into the
\* object, which Home's collection may share; only the form's state is
\* set, so Home does not render and no effect of Home runs.
MediaEntryChange(index, field, value) ==
  /\ phase = "idle"
  /\ showFormModal
  /\ index \in 1..Len(formMedia)
  /\ LET written == IF field = "duration"
                    THEN IF Truthy(JSParseInt(Str(value)))
                         THEN JSParseInt(Str(value)) ELSE Num(0)
                    ELSE Str(value)
         object == SetField(formMedia[index], field, written)
     IN /\ formMedia' = [formMedia EXCEPT ![index] = object]
        /\ mediaEntries' =
             IF StoredIndexOf(index) = 0 THEN mediaEntries
             ELSE [mediaEntries EXCEPT ![StoredIndexOf(index)] = object]
  /\ UNCHANGED <<entries, showFormModal, editingEntry, formDate,
                 showMediaFormModal, editingMediaEntry, errors, last,
                 factoryVars, storageVars, tableVars>>

\* the page is reloaded: Home mounts again, localStorage is kept
Reload ==
  /\ phase = "idle"
  /\ entries' = <<>>
  /\ mediaEntries' = <<>>
  /\ isLoaded' = FALSE
  /\ queued' = <<>>
  /\ phase' = "mount-load"
  /\ last' = Call("reload", <<>>, <<>>, <<>>, <<>>)
  /\ showFormModal' = FALSE
  /\ editingEntry' = <<>>
  /\ formDate' = ""
  /\ formMedia' = <<>>
  /\ errors' = <<>>
  /\ showMediaFormModal' = FALSE
  /\ editingMediaEntry' = <<>>
  /\ activeTab' = "happiness"
  /\ rowSelection' = {}
  /\ showDeleteDialog' = FALSE
  /\ editingCell' = ""
  /\ editValue' = ""
  /\ UNCHANGED <<factoryVars, storage, saved, faults>>

AnyLoadEffect == \E readFails \in BOOLEAN : LoadEffect(readFails)
AnySaveEffect == \E outcome \in SaveOutcomes : SaveEffect(outcome)
AnyStoredEntryAdded == \E e \in StorageEntries : StoredEntryAdded(e)
AnyStoredDeleteEntries ==
  \E e \in RowsOf(entries) : StoredDeleteEntries(<<e>>)
AnyStoredUpdateEntry ==
  \E o \in RowsOf(entries), n \in StorageEntries : StoredUpdateEntry(o, n)
AnyStoredMediaEntryAdded == \E e \in StorageMedia : StoredMediaEntryAdded(e)
AnyStoredDeleteMediaEntries ==
  \E e \in RowsOf(mediaEntries) : StoredDeleteMediaEntries(<<e>>)
OpenStoredForm == phase = "idle" /\ isLoaded /\ OpenForm
CloseStoredForm == phase = "idle" /\ CloseForm
AnyMediaEntryChange ==
  \E index \in 1..MaxStored : MediaEntryChange(index, "duration", "")

InitStorage ==
  /\ InitHome
  /\ InitForms
  /\ InitNoCall
  /\ storage \in InitialStorages
  /\ isLoaded = FALSE
  /\ phase = "mount-load"
  /\ queued = <<>>
  /\ saved = NoSave
  /\ faults = 0
  /\ InitTables

NextStorage ==
  \/ AnyLoadEffect
  \/ SaveEffectNotLoaded
  \/ AnySaveEffect
  \/ Render
  \/ AnyStoredEntryAdded
  \/ AnyStoredDeleteEntries
  \/ AnyStoredUpdateEntry
  \/ AnyStoredMediaEntryAdded
  \/ AnyStoredDeleteMediaEntries
  \/ OpenStoredForm
  \/ AnyMediaEntryChange
  \/ CloseStoredForm
  \/ Reload
SpecStorage == InitStorage /\ [][NextStorage]_vars

(***************************************************************************)
(* Entry factories as pure functions: a call is drawn in the initial       *)
(* state and one action evaluates it.                                      *)
(***************************************************************************)
FactoryDates ==
  {Str(d) : d \in {"2024-10-23", "2023-01-01", "2024-13-45", "23-10-2024",
                   "", "2024-10-2", "2024-10-233", "2024/10/23",
                   "invalid-date"}}
    \cup {Undefined, Null, Num(20241023), Symbol}

FactoryHappiness ==
  {Num(h) : h \in -3..3} \cup {Half(3), Half(-1), Half(5), Half(-5)}
    \cup {NaN, Undefined, Null, Str("1"), Str("3"), Symbol}

FactoryTypes ==
  {Str(x) : x \in {"book", "video", "podcast", "music", "invalid", ""}}
    \cup {Undefined, Symbol}

FactoryDurations ==
  {Num(d) : d \in {1, 2, 30, 120, 0, -30}}
    \cup {Half(61), Half(1), NaN, Undefined, Null, Str("0"), Symbol}

SampleId == "550e8400-e29b-41d4-a716-446655440000"

FactoryIds == {Str(SampleId), Str(""), Undefined, Null}

\* Values of Math.random() * 16 | 0 along one call of generateUUID
Nibbles == 0..15
RandomStrides == {0, 1, 7}
RandomStreams ==
  {[i \in 1..Len(UUIDTemplate) |-> (seed + i * stride) % 16] :
     seed \in Nibbles, stride \in RandomStrides}

HappinessCalls ==
  {[fn |-> "createHappinessEntry", date |-> d, happiness |-> h,
    type |-> Undefined, duration |-> Undefined, id |-> Undefined,
    rnd |-> <<>>, data |-> <<>>] : d \in FactoryDates, h \in FactoryHappiness}

MediaCalls ==
  {[fn |-> "createMediaEntry", date |-> d, happiness |-> Undefined,
    type |-> ty, duration |-> du, id |-> id, rnd |-> <<>>,
    data |-> <<>>] :
     d \in {Str("2024-10-23"), Str("2023-01-01"), Str("invalid-date"),
            Undefined},
     ty \in FactoryTypes, du \in FactoryDurations, id \in FactoryIds}

\* Records handed to validateHappiness and validateMedia directly.  A field
\* is one key/value pair or nothing (the key is left out of the object).
Omitted == <<>>
Given(k, v) == <<Field(k, v)>>

HappinessRecords ==
  {date \o happiness \o extra :
     date \in {Omitted, Given("date", Str("2024-10-23")),
               Given("date", Str("23-10-2024"))},
     happiness \in {Omitted, Given("happiness", Num(1)),
                    Given("happiness", Num(3)), Given("happiness", Half(3))},
     extra \in {Omitted, Given("note", Str("x")),
                Given("constructor", Str("x"))}}

MediaRecords ==
  {id \o date \o type \o extra \o duration :
     id \in {Omitted, Given("id", Str(SampleId))},
     date \in {Omitted, Given("date", Str("2024-10-23")),
               Given("date", Str("invalid-date"))},
     type \in {Omitted, Given("type", Str("book")),
               Given("type", Str("invalid"))},
     extra \in {Omitted, Given("title", Str("Inception"))},
     duration \in {Omitted, Given("duration", Num(60)),
                   Given("duration", Num(0)), Given("duration", Num(-30)),
                   Given("duration", Half(61))}}

ValidateCalls ==
  {[fn |-> "validateHappiness", date |-> Undefined, happiness |-> Undefined,
    type |-> Undefined, duration |-> Undefined, id |-> Undefined,
    rnd |-> <<>>, data |-> data] : data \in HappinessRecords}
  \cup
  {[fn |-> "validateMedia", date |-> Undefined, happiness |-> Undefined,
    type |-> Undefined, duration |-> Undefined, id |-> Undefined,
    rnd |-> <<>>, data |-> data] : data \in MediaRecords}

Done(r) == [success |-> r.success, data |-> r.data, errors |-> r.errors,
            done |-> TRUE, raised |-> FALSE]

\* the call threw: there is no result
Raised == [success |-> FALSE, data |-> <<>>, errors |-> <<>>,
           done |-> FALSE, raised |-> TRUE]

\* the {isValid, errors} result of a validate call
Validated(v) == [success |-> v.isValid, data |-> <<>>, errors |-> v.errors,
                 done |-> TRUE, raised |-> FALSE]

CallCreateHappinessEntry ==
  /\ call.fn = "createHappinessEntry"
  /\ ~result.done /\ ~result.raised
  /\ result' = IF createHappinessEntryThrows(call.date, call.happiness)
                THEN Raised
                ELSE Done(createHappinessEntry(call.date, call.happiness))
  /\ UNCHANGED <<call, homeVars, formVars, last, storageVars, tableVars>>

CallCreateMediaEntry ==
  /\ call.fn = "createMediaEntry"
  /\ ~result.done /\ ~result.raised
  /\ \E rnd \in RandomStreams :
       /\ result' = IF createMediaEntryThrows(call.date, call.type,
                                              call.duration, call.id)
                     THEN Raised
                     ELSE Done(createMediaEntry(call.date, call.type,
                                                call.duration, call.id, rnd))
       /\ call' = [call EXCEPT !.rnd = rnd]
  /\ UNCHANGED <<homeVars, formVars, last, storageVars, tableVars>>

CallValidateHappiness ==
  /\ call.fn = "validateHappiness"
  /\ ~result.done /\ ~result.raised
  /\ result' = IF validateDataThrows(call.data, happinessSchema)
                THEN Raised
                ELSE Validated(validateHappiness(call.data))
  /\ UNCHANGED <<call, homeVars, formVars, last, storageVars, tableVars>>

CallValidateMedia ==
  /\ call.fn = "validateMedia"
  /\ ~result.done /\ ~result.raised
  /\ result' = IF validateDataThrows(call.data, mediaSchema)
                THEN Raised
                ELSE Validated(validateMedia(call.data))
  /\ UNCHANGED <<call, homeVars, formVars, last, storageVars, tableVars>>

InitFactory ==
  /\ InitHome
  /\ InitForms
  /\ call \in HappinessCalls \cup MediaCalls \cup ValidateCalls
  /\ result = NoResult
  /\ InitNoStorage /\ InitTables

NextFactory ==
  \/ CallCreateHappinessEntry
  \/ CallCreateMediaEntry
  \/ CallValidateHappiness
  \/ CallValidateMedia
SpecFactory == InitFactory /\ [][NextFactory]_vars

(***************************************************************************)
(* Properties of the entry factories (checked under SpecFactory).          *)
(***************************************************************************)
\* A string of the form YYYY-MM-DD
IsYMD(v) ==
  /\ v.t = "string"
  /\ Len(v.s) = 10
  /\ \A i \in {1, 2, 3, 4, 6, 7, 9, 10} : CharAt(v.s, i) \in Digits
  /\ CharAt(v.s, 5) = "-"
  /\ CharAt(v.s, 8) = "-"

IsIntegerNumber(v) == v.t = "number" /\ v.n % 2 = 0
IntegerOf(v) == v.n \div 2

\* 8-4-4-4-12 lower-case hexadecimal digits, 36 characters
IsUUIDString(v) ==
  /\ v.t = "string"
  /\ Len(v.s) = 36
  /\ \A i \in 1..36 :
       IF i \in {9, 14, 19, 24} THEN CharAt(v.s, i) = "-"
       ELSE CharAt(v.s, i) \in HexDigits

Contains(list, x) == \E i \in 1..Len(list) : list[i] = x

HappinessCallDone == call.fn = "createHappinessEntry" /\ result.done
MediaCallDone == call.fn = "createMediaEntry" /\ result.done

\* C4: for every date string of the form YYYY-MM-DD and every integer h
\* in [-2, 2], createHappinessEntry(d, h) succeeds and its data is exactly
\* {date: d, happiness: h}.
C4_ValidHappinessAccepted ==
  (/\ HappinessCallDone
   /\ IsYMD(call.date)
   /\ IsIntegerNumber(call.happiness)
   /\ IntegerOf(call.happiness) \in -2..2)
  => /\ result.success
     /\ result.errors = <<>>
     /\ result.data = <<[k |-> "date", v |-> call.date],
                        [k |-> "happiness", v |-> call.happiness]>>

C4_Witness ==
  /\ HappinessCallDone
  /\ call.date = Str("2023-01-01")
  /\ call.happiness = Num(-2)
  /\ result.success

\* C5: createHappinessEntry fails for every h outside [-2, 2] and every
\* non-integer h; an integer below -2 (above 2) gets the minimum (maximum)
\* range error and a non-integer gets the integer type error.
C5_BadHappinessRejected ==
  HappinessCallDone =>
    /\ (IsIntegerNumber(call.happiness) /\ IntegerOf(call.happiness) < -2)
         => /\ ~result.success
            /\ Contains(result.errors, "Field happiness must be >= -2")
    /\ (IsIntegerNumber(call.happiness) /\ IntegerOf(call.happiness) > 2)
         => /\ ~result.success
            /\ Contains(result.errors, "Field happiness must be <= 2")
    /\ ~IsIntegerNumber(call.happiness)
         => /\ ~result.success
            /\ Contains(result.errors, "Field happiness must be an integer")

C5_Witness ==
  /\ HappinessCallDone
  /\ call.date = Str("2024-10-23")
  /\ call.happiness = Half(3)
  /\ ~result.success
  /\ result.errors = <<"Field happiness must be an integer">>

\* C6: createHappinessEntry fails when the date is malformed or missing,
\* and the errors contain a missing-field error or a pattern error for
\* date.
C6_BadDateRejected ==
  (HappinessCallDone /\ ~IsYMD(call.date))
  => /\ ~result.success
     /\ \/ Contains(result.errors, "Missing required field: date")
        \/ Contains(result.errors, "Field date does not match required pattern")

C6_Witness ==
  /\ HappinessCallDone
  /\ call.date = Undefined
  /\ call.happiness = Num(1)
  /\ ~result.success
  /\ Len(result.errors) > 0

\* C10: for a YYYY-MM-DD date, a type among book, video, podcast, music and
\* an integer duration >= 1, createMediaEntry succeeds with data carrying
\* those three values and an id: the supplied id when one is given,
\* otherwise a generated 36-character string in UUID format.
C10_ValidMediaAccepted ==
  (/\ MediaCallDone
   /\ IsYMD(call.date)
   /\ call.type \in {Str("book"), Str("video"), Str("podcast"), Str("music")}
   /\ IsIntegerNumber(call.duration)
   /\ IntegerOf(call.duration) >= 1
   /\ (IsUUIDString(call.id) \/ call.id \in {Undefined, Null}))
  => /\ result.success
     /\ Len(result.data) = 4
     /\ {result.data[i].k : i \in 1..4} = {"id", "date", "type", "duration"}
     /\ Get(result.data, "date") = call.date
     /\ Get(result.data, "type") = call.type
     /\ Get(result.data, "duration") = call.duration
     /\ IsUUIDString(call.id) => Get(result.data, "id") = call.id
     /\ IsUUIDString(Get(result.data, "id"))

C10_Witness ==
  /\ MediaCallDone
  /\ call.id = Undefined
  /\ call.type = Str("podcast")
  /\ call.duration = Num(1)
  /\ result.success
  /\ CharAt(Get(result.data, "id").s, 20) = "b"

(***************************************************************************)
(* Properties of the validator on media records, on raising calls and on   *)
(* records with several violations (checked under SpecFactory).            *)
(***************************************************************************)
\* The record a call hands to the validator and the schema it is checked
\* against
ValidatedRecord ==
  CASE call.fn = "createHappinessEntry" ->
         <<Field("date", call.date), Field("happiness", call.happiness)>>
    [] call.fn = "createMediaEntry" ->
         mediaEntryOf(call.date, call.type, call.duration, call.id, call.rnd)
    [] OTHER -> call.data

ValidatedSchema ==
  IF call.fn \in {"createHappinessEntry", "validateHappiness"}
  THEN happinessSchema ELSE mediaSchema

MediaValidationDone ==
  call.fn \in {"createMediaEntry", "validateMedia"} /\ result.done

TypeEnumError == "Field type must be one of: book, video, podcast, music"

\* C11: media validation fails for every record with a type outside
\* {book, video, podcast, music} (enum error), a duration below 1
\* (minimum error), a non-integer duration (integer type error), a date
\* that is not of the form YYYY-MM-DD (pattern error), or no date, type or
\* duration field (missing-field error).
C11_BadMediaRejected ==
  MediaValidationDone =>
    LET data == ValidatedRecord
        type == Get(data, "type")
        duration == Get(data, "duration")
        date == Get(data, "date")
    IN /\ (HasKey(data, "type")
             /\ type \notin {Str("book"), Str("video"), Str("podcast"),
                              Str("music")})
            => ~result.success /\ Contains(result.errors, TypeEnumError)
       /\ (HasKey(data, "duration") /\ duration.t = "number"
             /\ duration.n < 2)
            => /\ ~result.success
               /\ Contains(result.errors, "Field duration must be >= 1")
       /\ (HasKey(data, "duration") /\ ~IsIntegerNumber(duration))
            => /\ ~result.success
               /\ Contains(result.errors, "Field duration must be an integer")
       /\ (HasKey(data, "date") /\ ~IsYMD(date))
            => /\ ~result.success
               /\ Contains(result.errors,
                           "Field date does not match required pattern")
       /\ \A key \in {"date", "type", "duration"} :
            ~HasKey(data, key)
              => /\ ~result.success
                 /\ Contains(result.errors, "Missing required field: " \o key)

C11_Witness ==
  /\ call.fn = "validateMedia"
  /\ result.done
  /\ call.data = <<Field("id", Str(SampleId)), Field("type", Str("invalid")),
                    Field("duration", Num(0))>>
  /\ result.errors = <<"Missing required field: date", TypeEnumError,
                        "Field duration must be >= 1">>

FactoryCallEvaluated ==
  /\ call.fn \in {"createHappinessEntry", "createMediaEntry"}
  /\ (result.done \/ result.raised)

\* C12: for any argument values createHappinessEntry and createMediaEntry
\* return a tagged result without raising: success with the entry as data
\* exactly when the validator reports no errors, otherwise failure with the
\* validator's non-empty error list.
C12_FactoriesNeverRaise ==
  FactoryCallEvaluated =>
    /\ ~result.raised
    /\ LET validation == validateData(ValidatedRecord, ValidatedSchema)
       IN /\ result.success <=> validation.errors = <<>>
          /\ result.success => result.data = ValidatedRecord
          /\ ~result.success
               => result.errors = validation.errors /\ Len(result.errors) > 0

ValidationDone == call.fn # "none" /\ result.done

\* The constraints of the schema that the record violates, each with the
\* message that reports it
ViolationMessages(data, schema) ==
  {"Missing required field: " \o schema.required[i] :
     i \in {j \in 1..Len(schema.required) :
              ~HasKey(data, schema.required[j])}}
  \cup
  {"Additional property not allowed: " \o data[i].k :
     i \in {j \in 1..Len(data) :
              /\ data[j].k \notin DOMAIN schema.properties
              /\ schema.additionalProperties = FALSE}}
  \cup
  UNION
    {LET key == data[i].k
         value == data[i].v
         prop == schema.properties[key]
     IN (IF prop.type = "string" /\ value.t # "string"
         THEN {"Field " \o key \o " must be a string"} ELSE {})
        \cup
        (IF prop.type = "integer" /\ ~IsIntegerNumber(value)
         THEN {"Field " \o key \o " must be an integer"} ELSE {})
        \cup
        (IF Len(prop.enum) = 1 /\ prop.type = "string"
              /\ (value.t # "string"
                    \/ \A k \in 1..Len(prop.enum[1]) :
                         prop.enum[1][k] # value.s)
         THEN {"Field " \o key \o " must be one of: "
                 \o Join(prop.enum[1], ", ")} ELSE {})
        \cup
        (IF Len(prop.pattern) = 1 /\ value.t = "string"
              /\ ~RegExpTest(prop.pattern[1], value)
         THEN {"Field " \o key \o " does not match required pattern"}
         ELSE {})
        \cup
        (IF Len(prop.minimum) = 1 /\ value.t = "number"
              /\ value.n < 2 * prop.minimum[1]
         THEN {"Field " \o key \o " must be >= "
                 \o ToString(prop.minimum[1])} ELSE {})
        \cup
        (IF Len(prop.maximum) = 1 /\ value.t = "number"
              /\ value.n > 2 * prop.maximum[1]
         THEN {"Field " \o key \o " must be <= "
                 \o ToString(prop.maximum[1])} ELSE {}) :
     i \in {j \in 1..Len(data) : data[j].k \in DOMAIN schema.properties}}

DateOf(entry) == Get(entry, "date")
SamePair(e1, e2) ==
  /\ Get(e1, "date") = Get(e2, "date")
  /\ Get(e1, "happiness") = Get(e2, "happiness")
OnDate(list, date) == {i \in 1..Len(list) : DateOf(list[i]) = date}
NotOnDates(list, dates) ==
  SelectSeq(list, LAMBDA entry : DateOf(entry) \notin dates)
HasPair(list, e) == \E i \in 1..Len(list) : SamePair(list[i], e)

\* C1: after any sequence of Add, Update and Delete happiness operations
\* from the empty collection, with any entries as arguments, the
\* collection holds at most one entry per date.
C1_OneEntryPerDate ==
  \A i, j \in 1..Len(entries) :
    i # j => DateOf(entries[i]) # DateOf(entries[j])

\* C7: after Add happiness of e the collection has exactly one entry of
\* e's date, which is e, the entries of all other dates are as before, and
\* adding e once more gives the same collection.
C7_AddLastWriteWins ==
  last.op = "handleEntryAdded" =>
    LET e == last.a IN
      /\ Cardinality(OnDate(entries, DateOf(e))) = 1
      /\ \A i \in OnDate(entries, DateOf(e)) : entries[i] = e
      /\ NotOnDates(entries, {DateOf(e)}) = NotOnDates(last.prev, {DateOf(e)})
      /\ handleEntryAdded(entries, e) = entries

C7_Witness ==
  /\ last.op = "handleEntryAdded"
  /\ \E i \in 1..Len(last.prev) :
       DateOf(last.prev[i]) = DateOf(last.a) /\ last.prev[i] # last.a
  /\ Len(entries) = 3

\* C8: Delete happiness with list S leaves exactly the entries whose
\* (date, happiness) pair is not the pair of a member of S, in their
\* original order; every entry with such a pair is removed and deleting
\* absent entries changes nothing.
C8_DeleteLaw ==
  last.op = "handleDeleteEntries" =>
    entries = SelectSeq(last.prev, LAMBDA entry : ~HasPair(last.list, entry))

C8_Witness ==
  /\ last.op = "handleDeleteEntries"
  /\ Len(last.prev) = 3
  /\ last.prev[1] = last.prev[2]
  /\ HasPair(last.list, last.prev[1])
  /\ ~HasPair(last.list, last.prev[3])
  /\ Len(last.list) = 2
  /\ entries = <<last.prev[3]>>

UpdatedPresentEntry ==
  last.op = "handleUpdateEntry" /\ HasPair(last.prev, last.a)

UpdateCommonEffect ==
  LET old == last.a
      new == last.b
  IN /\ \E i \in 1..Len(entries) : entries[i] = new
     /\ DateOf(new) # DateOf(old)
          => Cardinality(OnDate(entries, DateOf(new))) = 1
     /\ NotOnDates(entries, {DateOf(old), DateOf(new)})
          = NotOnDates(last.prev, {DateOf(old), DateOf(new)})

\* C9 as stated: after Update happiness with (oldEntry, newEntry) on a
\* collection containing oldEntry, the collection contains newEntry, no
\* entry equal to oldEntry by (date, happiness), no other entry of
\* newEntry's date when the date changed, and the entries of the other
\* dates unchanged.
C9_UpdateRemovesOldAlways ==
  UpdatedPresentEntry =>
    /\ UpdateCommonEffect
    /\ ~HasPair(entries, last.a)

\* C9 amended: the same, except that an entry equal to oldEntry remains
\* exactly when newEntry has oldEntry's (date, happiness) pair.
C9_UpdateReplacesOld ==
  UpdatedPresentEntry =>
    /\ UpdateCommonEffect
    /\ HasPair(entries, last.a) <=> SamePair(last.a, last.b)

C9_Witness ==
  /\ UpdatedPresentEntry
  /\ DateOf(last.a) # DateOf(last.b)
  /\ Cardinality(OnDate(last.prev, DateOf(last.b))) = 1
  /\ ~HasPair(last.prev, last.b)
  /\ Len(last.prev) = 3
  /\ Len(entries) = 2

(***************************************************************************)
(* Properties of both collections under the forms (checked under           *)
(* SpecMedia).                                                             *)
(***************************************************************************)
TimeOf(entry) == DateNew(Get(entry, "date")).n
SortedByDateDesc(list) ==
  \A i, j \in 1..Len(list) : i < j => TimeOf(list[i]) >= TimeOf(list[j])

\* C2: after any operation on either collection, the collection is sorted
\* by date descending, in particular after Update media replaces an entry
\* with one of a different date.
C2_CollectionsSorted ==
  SortedByDateDesc(entries) /\ SortedByDateDesc(mediaEntries)

\* C3: no two entries of the media collection share an id, also after the
\* happiness form is submitted for a date that has stored media entries.
C3_UniqueMediaIds ==
  \A i, j \in 1..Len(mediaEntries) :
    i # j => Get(mediaEntries[i], "id") # Get(mediaEntries[j], "id")

(***************************************************************************)
(* Properties of the collection handlers called one at a time (checked     *)
(* under SpecReducer).                                                     *)
(***************************************************************************)
HappinessOps == {"handleEntryAdded", "handleUpdateEntry", "handleDeleteEntries"}
MediaOps ==
  {"handleMediaEntriesAdded", "handleMediaEntryAdded",
   "handleMediaEntryUpdated", "handleMediaEntryDeleted",
   "handleDeleteMediaEntries"}

\* C14: every happiness operation (add, update, batch delete) leaves the
\* media collection unchanged and every media operation leaves the
\* happiness collection unchanged; deleting a happiness entry keeps the
\* media entries of its date.
C14_IndependentCollections ==
  [][/\ last'.op \in HappinessOps => mediaEntries' = mediaEntries
     /\ last'.op \in MediaOps => entries' = entries]_vars

C14_Witness ==
  /\ last.op = "handleDeleteEntries"
  /\ Len(entries) < Len(last.prev)
  /\ \E i \in 1..Len(last.list), j \in 1..Len(mediaEntries) :
       /\ HasPair(last.prev, last.list[i])
       /\ Get(mediaEntries[j], "date") = Get(last.list[i], "date")
  /\ Len(mediaEntries) = 2

Count(list, x) == Cardinality({i \in 1..Len(list) : list[i] = x})

\* the list N of an add-media call
AddedMedia ==
  IF last.op = "handleMediaEntryAdded" THEN <<last.a>> ELSE last.list

\* C15: Add media with new entries N on collection C yields a collection
\* of length |N| + |C| that holds every entry of N and every entry of C as
\* often as N and C together do; nothing is dropped or replaced, also when
\* entries share a date.
C15_AddMediaKeepsAll ==
  last.op \in {"handleMediaEntriesAdded", "handleMediaEntryAdded"} =>
    /\ Len(mediaEntries) = Len(AddedMedia) + Len(last.prev)
    /\ \A x \in RowsOf(AddedMedia) \cup RowsOf(last.prev)
                \cup RowsOf(mediaEntries) :
         Count(mediaEntries, x) = Count(AddedMedia, x) + Count(last.prev, x)

C15_Witness ==
  /\ last.op = "handleMediaEntriesAdded"
  /\ Len(last.list) = 2
  /\ Len(last.prev) = 1
  /\ Get(last.list[1], "date") = Get(last.prev[1], "date")
  /\ Get(last.list[2], "date") = Get(last.prev[1], "date")
  /\ Len(mediaEntries) = 3

\* C16: Update media with (oldEntry, newEntry) puts newEntry in the place
\* of the entry whose id is oldEntry.id and leaves every other entry, the
\* length and the positions unchanged; when no entry has that id the
\* collection is unchanged.
C16_UpdateMediaInPlace ==
  last.op = "handleMediaEntryUpdated" =>
    /\ Len(mediaEntries) = Len(last.prev)
    /\ \A i \in 1..Len(last.prev) :
         mediaEntries[i] =
           IF Get(last.prev[i], "id") = Get(last.a, "id")
           THEN last.b ELSE last.prev[i]
    /\ (\A i \in 1..Len(last.prev) :
          Get(last.prev[i], "id") # Get(last.a, "id"))
         => mediaEntries = last.prev

C16_Witness ==
  /\ last.op = "handleMediaEntryUpdated"
  /\ Len(last.prev) = 3
  /\ Get(last.prev[2], "id") = Get(last.a, "id")
  /\ Get(last.prev[1], "id") # Get(last.a, "id")
  /\ Get(last.prev[3], "id") # Get(last.a, "id")
  /\ Get(last.b, "date") # Get(last.prev[2], "date")
  /\ TimeOf(last.b) > TimeOf(last.prev[1])
  /\ mediaEntries = <<last.prev[1], last.b, last.prev[3]>>

\* the list D of a delete-media call
DeletedMedia ==
  IF last.op = "handleMediaEntryDeleted" THEN <<last.a>> ELSE last.list

HasId(list, entry) ==
  \E i \in 1..Len(list) : Get(list[i], "id") = Get(entry, "id")

\* C17: Delete media with a list D removes exactly the entries whose id is
\* the id of a member of D and keeps the others in their order; ids of D
\* that match no entry have no effect.
C17_DeleteMediaById ==
  last.op \in {"handleDeleteMediaEntries", "handleMediaEntryDeleted"} =>
    mediaEntries =
      SelectSeq(last.prev, LAMBDA entry : ~HasId(DeletedMedia, entry))

C17_Witness ==
  /\ last.op = "handleDeleteMediaEntries"
  /\ Len(last.list) = 2
  /\ Len(last.prev) = 3
  /\ ~HasId(last.prev, last.list[1])
  /\ Get(last.prev[2], "id") = Get(last.list[2], "id")
  /\ mediaEntries = <<last.prev[1], last.prev[3]>>

(***************************************************************************)
(* Persistence claims (SpecStorage).                                       *)
(***************************************************************************)
\* the render that applied the updates of the load effect has just run
JustLoaded == isLoaded /\ phase = "save" /\ last.op \in {"load", "loadParseFailed"}

\* C18: when the save effect has written both collections and the page is
\* loaded again from what localStorage then holds, the loaded collections
\* equal the saved ones: the same entries in the same order, with the same
\* strings and numbers.
C18_SaveLoadRoundTrip ==
  (saved.outcome = "ok" /\ JustLoaded) =>
    /\ last.op = "load"
    /\ entries = saved.entries
    /\ mediaEntries = saved.media

\* two happiness entries and a media entry whose title needs escaping came
\* back from storage
C18_Witness ==
  /\ saved.outcome = "ok"
  /\ JustLoaded
  /\ Len(entries) = 2
  /\ entries[1] # entries[2]
  /\ \E i \in 1..Len(mediaEntries) : HasKey(mediaEntries[i], "title")
  /\ entries = saved.entries
  /\ mediaEntries = saved.media

\* C19: once loaded and with no effect pending, the last run of the save
\* effect was given the collections as they are in memory, and if it
\* succeeded localStorage holds their serialisation.
C19_EveryChangeSaved ==
  (isLoaded /\ phase = "idle") =>
    /\ saved.entries = entries
    /\ saved.media = mediaEntries
    /\ (saved.outcome = "ok" =>
          storage = [entries |-> Item(JSONStringify(entries)),
                     media |-> Item(JSONStringify(mediaEntries))])

\* C20: a run of the save effect in which a storage write raises ends
\* normally, leaves both in-memory collections as they are and leaves no
\* effect pending (the save is not run again), so that the handlers of the
\* page can be called next.
C20_FailedSaveHarmless ==
  [][(phase = "save" /\ isLoaded /\ faults' > faults) =>
       /\ saved'.outcome = "failed"
       /\ entries' = entries
       /\ mediaEntries' = mediaEntries
       /\ phase' = "idle"
       /\ isLoaded'
       /\ (NoModal => HomeReady')]_vars

\* a save failed, an entry was added afterwards and the next save wrote it
C20_Witness ==
  /\ faults > 0
  /\ saved.outcome = "ok"
  /\ last.op = "handleEntryAdded"
  /\ phase = "idle"
  /\ Len(entries) > 0
  /\ storage.entries = Item(JSONStringify(entries))

\* the collection JSON.parse gives for a stored item
StoredValue(item) == JSONParse(item[1]).value

\* C25: no step taken while isLoaded is false writes to localStorage, and
\* when the load succeeded the render that sets isLoaded shows the stored
\* collections, which localStorage still holds.
C25_NoWriteBeforeLoad ==
  [][/\ ~isLoaded => storage' = storage
     /\ (~isLoaded /\ isLoaded' /\ last.op = "load") =>
          /\ Present(storage.entries) => entries' = StoredValue(storage'.entries)
          /\ Present(storage.media) =>
               mediaEntries' = StoredValue(storage'.media)]_vars

\* both stored collections were loaded and the first save has not run yet
C25_Witness ==
  /\ JustLoaded
  /\ last.op = "load"
  /\ saved = NoSave
  /\ storage = [entries |-> Item(StoredHappinessText),
                media |-> Item(StoredMediaText)]
  /\ Len(entries) = 1
  /\ Len(mediaEntries) = 1

LoadFailures == {"loadReadFailed", "loadParseFailed"}

\* C26: when the load effect fails (getItem or JSON.parse raises), the
\* next render has isLoaded true, holds the happiness collection only if
\* it was parsed before the failure and an empty media collection, and the
\* save effect that follows, if its writes succeed, stores exactly these
\* collections under both keys.
C26_LoadFailureHandled ==
  [][/\ (phase = "render" /\ last.op \in LoadFailures) =>
          /\ isLoaded'
          /\ mediaEntries' = <<>>
          /\ entries' =
               IF last.op = "loadParseFailed" /\ Present(storage.entries)
                  /\ JSONParse(storage.entries[1]).ok
               THEN StoredValue(storage.entries) ELSE <<>>
     /\ (phase = "save" /\ last.op \in LoadFailures /\ faults' = faults) =>
          storage' = [entries |-> Item(JSONStringify(entries)),
                      media |-> Item(JSONStringify(mediaEntries))]]_vars

\* the stored happiness text was corrupt: both keys now hold the empty
\* collection
C26_Witness ==
  /\ last.op = "loadParseFailed"
  /\ phase = "idle"
  /\ isLoaded
  /\ entries = <<>>
  /\ mediaEntries = <<>>
  /\ storage = [entries |-> Item("[]"), media |-> Item("[]")]

(***************************************************************************)
(* validateData called with a schema of the caller: the validator is       *)
(* exported and takes the schema as its second argument.                   *)
(***************************************************************************)
NoKeyword == <<>>

\* a schema with an enum on an integer property and on a string property
LevelSchema(additionalProperties) ==
  [ required |-> <<"level">>,
    properties |->
      [ level |-> [type |-> "integer",
                   enum |-> <<<<Num(1), Num(2), Num(3)>>>>,
                   pattern |-> NoKeyword, minimum |-> NoKeyword,
                   maximum |-> NoKeyword],
        label |-> [type |-> "string", enum |-> <<<<"low", "high">>>>,
                   pattern |-> NoKeyword, minimum |-> NoKeyword,
                   maximum |-> NoKeyword] ],
    additionalProperties |-> additionalProperties ]

SchemaSamples == {LevelSchema(ap) : ap \in BOOLEAN}

SchemaRecords ==
  {level \o label \o extra :
     level \in {Omitted, Given("level", Num(2)), Given("level", Num(5)),
                Given("level", Str("2"))},
     label \in {Omitted, Given("label", Str("low")),
                Given("label", Str("mid")), Given("label", Num(1))},
     extra \in {Omitted, Given("note", Str("x")), Given("note", Num(7)),
                Given("constructor", Str("x"))}}

SchemaCalls ==
  {[fn |-> "validateData", date |-> Undefined, happiness |-> Undefined,
    type |-> Undefined, duration |-> Undefined, id |-> Undefined,
    rnd |-> <<>>, data |-> data, schema |-> schema] :
     data \in SchemaRecords, schema \in SchemaSamples}

CallValidateData ==
  /\ call.fn = "validateData"
  /\ ~result.done /\ ~result.raised
  /\ result' = IF validateDataThrows(call.data, call.schema)
                THEN Raised
                ELSE Validated(validateData(call.data, call.schema))
  /\ UNCHANGED <<call, homeVars, formVars, last, storageVars, tableVars>>

InitSchema ==
  /\ InitHome
  /\ InitForms
  /\ call \in SchemaCalls
  /\ result = NoResult
  /\ InitNoStorage /\ InitTables

NextSchema == CallValidateData
SpecSchema == InitSchema /\ [][NextSchema]_vars

(***************************************************************************)
(* Validator claims on caller-given schemas (SpecSchema).                  *)
(***************************************************************************)
DataValidated == call.fn = "validateData" /\ result.done

\* the allowed values of a property, as they are written in the message
EnumTexts(prop) ==
  [i \in 1..Len(prop.enum[1]) |->
     IF prop.type = "string" THEN prop.enum[1][i]
     ELSE JSToString(prop.enum[1][i])]

\* the value is one of the allowed values
AmongAllowed(prop, value) ==
  \E i \in 1..Len(prop.enum[1]) :
    IF prop.type = "string"
    THEN value.t = "string" /\ value.s = prop.enum[1][i]
    ELSE value = prop.enum[1][i]

EnumMessage(key, prop) ==
  "Field " \o key \o " must be one of: " \o Join(EnumTexts(prop), ", ")

\* C23 as stated: for every key of the record whose property declares an
\* enum, whatever the declared type, the error "Field <key> must be one
\* of: <list>" is in the result exactly when the value is not an allowed
\* one.
C23_EnumForEveryType ==
  DataValidated =>
    \A i \in 1..Len(call.data) :
      LET key == call.data[i].k IN
        key \in DOMAIN call.schema.properties =>
          (Contains(result.errors, EnumMessage(key, call.schema.properties[key]))
             <=> ~AmongAllowed(call.schema.properties[key], call.data[i].v))

\* C23, amended: for every key of the record whose property is declared
\* with type string and an enum, the error "Field <key> must be one of:
\* <list>" is in the result exactly when the value is not an allowed one;
\* for a property of another declared type no enum error is emitted.
C23_EnumForStrings ==
  DataValidated =>
    \A i \in 1..Len(call.data) :
      LET key == call.data[i].k IN
        key \in DOMAIN call.schema.properties =>
          (Contains(result.errors, EnumMessage(key, call.schema.properties[key]))
             <=> (call.schema.properties[key].type = "string"
                    /\ ~AmongAllowed(call.schema.properties[key],
                                     call.data[i].v)))

\* a label outside the enum was reported, next to a level outside its enum
C23_Witness ==
  /\ DataValidated
  /\ Get(call.data, "label") = Str("mid")
  /\ Get(call.data, "level") = Num(5)
  /\ Contains(result.errors, "Field label must be one of: low, high")

\* the messages of the checks that are made on a defined property
CheckMessages(key) ==
  {"Field " \o key \o " must be a string",
   "Field " \o key \o " must be an integer",
   "Field " \o key \o " does not match required pattern"}

AdditionalMessage(key) == "Additional property not allowed: " \o key

\* C24: for every key of the record that schema.properties does not
\* define, "Additional property not allowed: <key>" is in the result
\* exactly when additionalProperties is false, and no other error names
\* the key.
C24_AdditionalProperties ==
  DataValidated =>
    \A i \in 1..Len(call.data) :
      LET key == call.data[i].k IN
        key \notin DOMAIN call.schema.properties =>
          /\ Contains(result.errors, AdditionalMessage(key))
               <=> (call.schema.additionalProperties = FALSE)
          /\ \A msg \in CheckMessages(key) : ~Contains(result.errors, msg)

(***************************************************************************)
(* The tables.  Home mounts HappinessTable or MediaTable, whichever        *)
(* activeTab names; the mounted table holds the row selection and the      *)
(* confirm dialog, HappinessTable also the inline edit of a happiness      *)
(* cell.  Entries reach the collections through the forms.                 *)
(***************************************************************************)
MaxRows == 2

TableEntries ==
  {HappinessEntry(Today, 1), HappinessEntry("2024-12-25", -1)}
TableMedia ==
  {MediaEntry("550e8400-e29b-41d4-a716-446655440001", Today, "video", 30),
   MediaEntry("550e8400-e29b-41d4-a716-446655440002", "2024-12-25", "music",
              120)}
\* texts typed into the edit input
EditValues == {"2", "5", ""}

\* no dialog is open and no cell is being edited
TableIdle == ~showDeleteDialog /\ editingCell = ""

TableEntryAdded(newEntry) ==
  /\ TableIdle
  /\ Len(handleEntryAdded(entries, newEntry)) <= MaxRows
  /\ EntryAdded(newEntry)

TableMediaEntryAdded(newEntry) ==
  /\ TableIdle
  /\ Len(mediaEntries) < MaxRows
  /\ MediaEntryAdded(newEntry)

\* setActiveTab: the other table is mounted with its initial state
SetActiveTab(tab) ==
  /\ TableIdle
  /\ tab # activeTab
  /\ activeTab' = tab
  /\ rowSelection' = {}
  /\ UNCHANGED <<homeVars, formVars, last, factoryVars, storageVars,
                 showDeleteDialog, editingCell, editValue>>

\* getRowId of the mounted table
RowId(row) ==
  IF activeTab = "happiness"
  THEN JSToString(Get(row, "date")) \o "-" \o JSToString(Get(row, "happiness"))
  ELSE JSToString(Get(row, "id"))

TableData == IF activeTab = "happiness" THEN entries ELSE mediaEntries

\* table.getFilteredSelectedRowModel().rows.map(row => row.original)
selectedRows == SelectSeq(TableData, LAMBDA row : RowId(row) \in rowSelection)

\* row.getToggleSelectedHandler()
ToggleSelected(rowId) ==
  /\ TableIdle
  /\ rowSelection' = IF rowId \in rowSelection THEN rowSelection \ {rowId}
                     ELSE rowSelection \cup {rowId}
  /\ UNCHANGED <<homeVars, formVars, last, factoryVars, storageVars,
                 activeTab, showDeleteDialog, editingCell, editValue>>

\* Variant: the dialog opens whatever the selection
handleDeleteSelected_Unguarded ==
  /\ TableIdle
  /\ showDeleteDialog' = TRUE
  /\ UNCHANGED <<homeVars, formVars, last, factoryVars, storageVars,
                 activeTab, rowSelection, editingCell, editValue>>

handleDeleteSelected ==
  /\ TableIdle
  /\ showDeleteDialog' = (Len(selectedRows) # 0)
  /\ UNCHANGED <<homeVars, formVars, last, factoryVars, storageVars,
                 activeTab, rowSelection, editingCell, editValue>>

handleConfirmDelete ==
  /\ showDeleteDialog
  /\ IF activeTab = "happiness"
     THEN /\ entries' = handleDeleteEntries(entries, selectedRows)
          /\ last' = Call("handleDeleteEntries", <<>>, <<>>, selectedRows,
                          entries)
          /\ UNCHANGED mediaEntries
     ELSE /\ mediaEntries' = handleDeleteMediaEntries(mediaEntries, selectedRows)
          /\ last' = Call("handleDeleteMediaEntries", <<>>, <<>>, selectedRows,
                          mediaEntries)
          /\ UNCHANGED entries
  /\ rowSelection' = {}
  /\ showDeleteDialog' = FALSE
  /\ UNCHANGED <<formVars, factoryVars, storageVars, activeTab, editingCell,
                 editValue>>

\* the Cancel button, a click on the overlay or the Escape key
handleCancelDelete ==
  /\ showDeleteDialog
  /\ showDeleteDialog' = FALSE
  /\ UNCHANGED <<homeVars, formVars, last, factoryVars, storageVars,
                 activeTab, rowSelection, editingCell, editValue>>

handleStartEdit(row) ==
  /\ activeTab = "happiness"
  /\ TableIdle
  /\ editingCell' = RowId(row)
  /\ editValue' = JSToString(Get(row, "happiness"))
  /\ UNCHANGED <<homeVars, formVars, last, factoryVars, storageVars,
                 activeTab, rowSelection, showDeleteDialog>>

\* onChange of the edit input
ChangeEditValue(text) ==
  /\ editingCell # ""
  /\ editValue' = text
  /\ UNCHANGED <<homeVars, formVars, last, factoryVars, storageVars,
                 activeTab, rowSelection, showDeleteDialog, editingCell>>

\* the Escape key in the edit input
handleCancelEdit ==
  /\ editingCell # ""
  /\ editingCell' = ""
  /\ editValue' = ""
  /\ UNCHANGED <<homeVars, formVars, last, factoryVars, storageVars,
                 activeTab, rowSelection, showDeleteDialog>>

\* handleSaveEdit: the value is saved when parseInt gives an integer of
\* [-2, 2] other than the row's
SavesEdit(originalEntry, text) ==
  LET newValue == JSParseInt(Str(text)) IN
    /\ newValue.t # "nan"
    /\ ~JSLess(newValue, -2)
    /\ ~JSGreater(newValue, 2)
    /\ ~JSStrictEq(newValue, Get(originalEntry, "happiness"))

\* {...originalEntry, happiness: newValue}
updatedEntry(originalEntry, text) ==
  SetField(originalEntry, "happiness", JSParseInt(Str(text)))

\* handleSaveEdit(info.row.original), run by the events of the edit input:
\* the Enter key, the blur, or the Enter key followed by the blur of the
\* input it removes, both with the row and the text of the same render.
\* The call record lists the newEntry argument of every update made.
handleSaveEdit(originalEntry, events) ==
  /\ editingCell # ""
  /\ RowId(originalEntry) = editingCell
  /\ IF SavesEdit(originalEntry, editValue)
     THEN LET once == handleUpdateEntry(entries, originalEntry,
                                        updatedEntry(originalEntry, editValue))
              twice == handleUpdateEntry(once, originalEntry,
                                         updatedEntry(originalEntry, editValue))
          IN /\ entries' = IF Len(events) = 2 THEN twice ELSE once
             /\ Len(entries') <= MaxEntries
             /\ last' = Call("handleUpdateEntry", originalEntry,
                             updatedEntry(originalEntry, editValue),
                             [i \in 1..Len(events) |->
                                updatedEntry(originalEntry, editValue)],
                             entries)
     ELSE UNCHANGED <<entries, last>>
  /\ editingCell' = ""
  /\ editValue' = ""
  /\ UNCHANGED <<mediaEntries, formVars, factoryVars, storageVars, activeTab,
                 rowSelection, showDeleteDialog>>

EditEvents == {<<"Enter">>, <<"blur">>, <<"Enter", "blur">>}

AnyTableEntryAdded == \E e \in TableEntries : TableEntryAdded(e)
AnyTableMediaEntryAdded == \E e \in TableMedia : TableMediaEntryAdded(e)
AnySetActiveTab == \E tab \in {"happiness", "media"} : SetActiveTab(tab)
AnyToggleSelected == \E row \in RowsOf(TableData) : ToggleSelected(RowId(row))
AnyStartEdit == \E row \in RowsOf(entries) : handleStartEdit(row)
AnyChangeEditValue == \E text \in EditValues : ChangeEditValue(text)
AnySaveEdit ==
  \E row \in RowsOf(entries), events \in EditEvents :
    handleSaveEdit(row, events)

InitTable == InitHome /\ InitForms /\ InitNoCall /\ InitNoStorage /\ InitTables
NextTable ==
  \/ AnyTableEntryAdded
  \/ AnyTableMediaEntryAdded
  \/ AnySetActiveTab
  \/ AnyToggleSelected
  \/ handleDeleteSelected
  \/ handleConfirmDelete
  \/ handleCancelDelete
  \/ AnyStartEdit
  \/ AnyChangeEditValue
  \/ handleCancelEdit
  \/ AnySaveEdit
SpecTable == InitTable /\ [][NextTable]_vars

(***************************************************************************)
(* Table claims (SpecTable).                                               *)
(***************************************************************************)
\* C28: when both the Enter key and the blur of one inline edit run
\* handleSaveEdit with the same row, the collection is the one that a
\* single update with that (oldEntry, newEntry) pair gives.
C28_DoubleUpdateIdempotent ==
  (last.op = "handleUpdateEntry" /\ last.list = <<last.b, last.b>>) =>
    entries = handleUpdateEntry(last.prev, last.a, last.b)

\* the rows of the mounted table that are not selected
UnselectedRows ==
  SelectSeq(TableData, LAMBDA row : RowId(row) \notin rowSelection)

TableDeleteCalled ==
  /\ last' # last
  /\ last'.op \in {"handleDeleteEntries", "handleDeleteMediaEntries"}

\* C29: the delete dialog opens only when at least one row is selected and
\* opening it changes neither collection nor the selection; a table delete
\* changes a collection only in the step that closes the dialog; that step
\* either leaves both collections and the selection unchanged (cancel) or
\* removes exactly the selected rows from the mounted table's collection
\* and empties the selection (confirm).
C29_ConfirmProtocol ==
  [][/\ showDeleteDialog => Len(selectedRows) # 0
     /\ (~showDeleteDialog /\ showDeleteDialog') =>
          /\ Len(selectedRows) # 0
          /\ UNCHANGED <<entries, mediaEntries, rowSelection>>
     /\ TableDeleteCalled => (showDeleteDialog /\ ~showDeleteDialog')
     /\ (showDeleteDialog /\ ~showDeleteDialog') =>
          \/ UNCHANGED <<entries, mediaEntries, rowSelection, last>>
          \/ /\ TableDeleteCalled
             /\ activeTab' = activeTab
             /\ TableData' = UnselectedRows
             /\ Len(TableData') < Len(TableData)
             /\ rowSelection' = {}
             /\ IF activeTab = "happiness" THEN UNCHANGED mediaEntries
                ELSE UNCHANGED entries]_vars

\* a confirmed delete of selected media rows has been made
C29_Witness ==
  /\ last.op = "handleDeleteMediaEntries"
  /\ Len(last.list) = 2
  /\ mediaEntries = <<>>
  /\ rowSelection = {}
  /\ ~showDeleteDialog

(***************************************************************************)
(* The forms and the inline edit together: entries enter the collections   *)
(* through the happiness form with its media fieldsets, the media form     *)
(* and the edit of a happiness cell.  The date input may be cleared and    *)
(* the duration of a fieldset changed.                                     *)
(***************************************************************************)
MaxFormEntries == 1
MaxFormMedia == 1
MaxFormFieldsets == 1

\* the date input of the happiness form: today's date, or cleared
EnteredDates == {Today, ""}
\* the duration input of a fieldset is cleared
FieldsetChanges == {<<"duration", "">>}

Bounded ==
  /\ Len(entries) <= MaxFormEntries
  /\ Len(mediaEntries) <= MaxFormMedia
  /\ Len(formMedia) <= MaxFormFieldsets
Within(A) == A /\ Bounded'

\* a click outside the edit input blurs it first, which ends the edit
Idle(A) == editingCell = "" /\ A

AnyEnterDate == \E newDate \in EnteredDates : DateChange(newDate)
AnyFieldsetChange ==
  \E index \in 1..MaxFormFieldsets, change \in FieldsetChanges :
    MediaEntryChange(index, change[1], change[2])
\* Math.random: of the streams that give unused identifiers, one is drawn
FormSubmitHappiness ==
  /\ showFormModal
  /\ FieldsetStreams # {}
  /\ \E happiness \in FormLevels :
       SubmitHappinessForm(happiness, CHOOSE rnds \in FieldsetStreams : TRUE)
FormSubmitMedia ==
  /\ showMediaFormModal
  /\ \E date \in EnteredDates, type \in FormTypes, duration \in FormDurations :
       SubmitMediaForm(date, type, duration,
                       CHOOSE rnd \in MediaStreams :
                         editingMediaEntry = <<>> => FreshStream(rnd))
\* the table is under the modal of an open form
ShownStartEdit == NoModal /\ AnyStartEdit

InitForm == InitHome /\ InitForms /\ InitNoCall /\ InitNoStorage /\ InitTables
NextForm ==
  \/ Idle(OpenForm)
  \/ Idle(AnyEditEntry)
  \/ CloseForm
  \/ AnyEnterDate
  \/ Within(AddMediaEntry)
  \/ AnyRemoveMediaEntry
  \/ AnyFieldsetChange
  \/ Within(FormSubmitHappiness)
  \/ Idle(OpenMediaForm)
  \/ Idle(AnyEditMediaEntry)
  \/ CloseMediaForm
  \/ Within(FormSubmitMedia)
  \/ ShownStartEdit
  \/ AnyChangeEditValue
  \/ handleCancelEdit
  \/ Within(AnySaveEdit)
SpecForm == InitForm /\ [][NextForm]_vars

(***************************************************************************)
(* Form claims (SpecForm).                                                 *)
(***************************************************************************)
ValidHappinessEntry(entry) ==
  /\ IsIntegerNumber(Get(entry, "happiness"))
  /\ IntegerOf(Get(entry, "happiness")) \in -2..2
  /\ IsYMD(Get(entry, "date"))

ValidFieldset(media) ==
  /\ Get(media, "type") \in {Str("book"), Str("video"), Str("podcast"),
                             Str("music")}
  /\ IsIntegerNumber(Get(media, "duration"))
  /\ IntegerOf(Get(media, "duration")) >= 1

ValidMediaEntry(media) ==
  /\ ValidFieldset(media)
  /\ Get(media, "id").t = "string"
  /\ Get(media, "id").s # ""

\* the date and every fieldset of the mounted happiness form are valid
FormValid ==
  /\ IsYMD(Str(formDate))
  /\ \A i \in 1..Len(formMedia) : ValidFieldset(formMedia[i])

\* a submission has failed: a new list of errors is shown
SubmitFailed == errors' # <<>> /\ errors' # errors
\* a callback of Home has been called
CallbackInvoked == last' # last

\* C21: a submission that fails validation calls no callback, leaves both
\* collections unchanged and the form open as it was, and the happiness
\* form fails only when its date or one of its fieldsets is invalid; a
\* submission that succeeds puts the entry in its collection and closes
\* the form, whether it created or edited, and the creation form mounted
\* next shows the defaults (today's date, no errors).
C21_SubmitOutcome ==
  [][/\ SubmitFailed =>
          /\ ~CallbackInvoked
          /\ UNCHANGED <<entries, mediaEntries, showFormModal, editingEntry,
                         formDate, formMedia, showMediaFormModal,
                         editingMediaEntry>>
          /\ ~NoModal
          /\ showFormModal => ~FormValid
     /\ (showFormModal /\ CallbackInvoked
           /\ last'.op = "handleMediaEntriesAdded") =>
          /\ FormValid
          /\ \E level \in FormLevels :
               Contains(entries', HappinessEntry(formDate, level))
          /\ \A i \in 1..Len(formMedia) :
               \E j \in 1..Len(mediaEntries') :
                 /\ Get(mediaEntries'[j], "date") = Str(formDate)
                 /\ Get(mediaEntries'[j], "type") = Get(formMedia[i], "type")
                 /\ Get(mediaEntries'[j], "duration")
                      = Get(formMedia[i], "duration")
          /\ NoModal'
          /\ editingEntry' = <<>>
          /\ errors' = <<>>
     /\ (showMediaFormModal /\ CallbackInvoked) =>
          /\ last'.op = IF editingMediaEntry = <<>>
                        THEN "handleMediaEntryAdded"
                        ELSE "handleMediaEntryUpdated"
          /\ ValidMediaEntry(last'.a) \/ ValidMediaEntry(last'.b)
          /\ Contains(mediaEntries',
                      IF editingMediaEntry = <<>> THEN last'.a ELSE last'.b)
          /\ NoModal'
          /\ editingMediaEntry' = <<>>
          /\ errors' = <<>>
     /\ (NoModal /\ showFormModal' /\ editingEntry' = <<>>) =>
          /\ formDate' = Today
          /\ errors' = <<>>]_vars

\* a submission of the happiness form has failed on an invalid fieldset
\* and the form is still open
C21_Witness ==
  /\ showFormModal
  /\ errors # <<>>
  /\ IsYMD(Str(formDate))
  /\ \E i \in 1..Len(formMedia) : ~ValidFieldset(formMedia[i])

\* C22: while the happiness form is open, a change of the type or the
\* duration of one of its fieldsets leaves the media collection of Home
\* as it was: the collection changes only when a handler replaces it.
C22_CopyOnWrite ==
  [][(/\ showFormModal /\ showFormModal'
      /\ formDate' = formDate
      /\ Len(formMedia') = Len(formMedia)
      /\ formMedia' # formMedia) => mediaEntries' = mediaEntries]_vars

\* C27: every entry of the happiness collection has an integer happiness
\* in [-2, 2] and a YYYY-MM-DD date, and every entry of the media
\* collection has one of the four types, an integer duration >= 1 and a
\* non-empty id.
C27_EntriesValid ==
  /\ \A i \in 1..Len(entries) : ValidHappinessEntry(entries[i])
  /\ \A i \in 1..Len(mediaEntries) : ValidMediaEntry(mediaEntries[i])

\* the index-th fieldset has gone and the others are as they were
Removed(index) ==
  /\ index \in 1..Len(formMedia)
  /\ showFormModal /\ showFormModal'
  /\ formDate' = formDate
  /\ formMedia' = [i \in 1..(Len(formMedia) - 1) |->
                     IF i < index THEN formMedia[i] ELSE formMedia[i + 1]]

\* C30: in the step that removes a fieldset of the open happiness form,
\* the media collection loses the entries with the fieldset's id when the
\* fieldset has one, and is unchanged when it has none; the form stays
\* open, nothing is submitted.
C30_RemoveStoredFieldset ==
  [][\A index \in 1..MaxFieldsets :
       Removed(index) =>
         IF Truthy(Get(formMedia[index], "id"))
         THEN /\ mediaEntries' =
                   SelectSeq(mediaEntries,
                             LAMBDA media : Get(media, "id")
                                              # Get(formMedia[index], "id"))
              /\ \A j \in 1..Len(mediaEntries') :
                   Get(mediaEntries'[j], "id") # Get(formMedia[index], "id")
         ELSE mediaEntries' = mediaEntries]_vars

\* the fieldset of a stored media entry has been removed, the entry has
\* gone from the collection and the form is still open
C30_Witness ==
  /\ showFormModal
  /\ last.op = "handleMediaEntryDeleted"
  /\ Len(last.prev) = 1
  /\ mediaEntries = <<>>
  /\ formMedia = <<>>
====
